---- MODULE Spec2Model ----
(***************************************************************************)
(* Verification model of the streaming protocol layer of the voice         *)
(* assistant (src/chatbot/voice_assistant.py and                           *)
(* src/robot_controller/ai/tts_client.py).                                 *)
(*                                                                         *)
(* Three components are modelled, each with its own specification over    *)
(* the shared variable list:                                               *)
(*   SpecSched  StreamingTTSWorker: segmentation, dispatch, reassembly     *)
(*   SpecTTS    one synthesis session (three implementations)              *)
(*   SpecASR    ASRWorker: audio upload with silence detection, receive    *)
(*                                                                         *)
(* Text is a sequence of characters; a character is written as a string    *)
(* naming its code point ("U3002" is the ideographic full stop, "LF" the   *)
(* line feed, "U1F60A" an emoji), ASCII characters are written as          *)
(* themselves.                                                             *)
(***************************************************************************)
EXTENDS Integers, Sequences, FiniteSets, TLC

\* ------------------------------------------------------------------------
\* Bounds of the model
\* ------------------------------------------------------------------------
\* number of add_text_chunk calls of one reply
MaxCalls == 3

\* ------------------------------------------------------------------------
\* Scheduler (StreamingTTSWorker): text helpers
\* ------------------------------------------------------------------------
SENTENCE_DELIMITERS == <<"U3002", "UFF01", "UFF1F", "UFF1B", "LF", "!", "?", ";">>

\* characters kept by re.sub(r'[^一-龥a-zA-Z0-9]', '', text)
\* (the members of the class that occur in the inputs of the model)
ValidChars == {"a", "o", "k", "1", "U4F60", "U597D", "U4ECA", "U5929", "U6C14", "U4E0D", "U9519"}

\* characters removed by str.strip()
Whitespace == {" ", "LF"}

\* the chunks the chat stream delivers in the model
InputChunks ==
    { <<"a", "a", "U3002">>,        \* a sentence with two valid characters
      <<"a", "U3002">>,             \* a sentence with one valid character
      <<"U1F60A", "!">>,            \* an emoji sentence
      <<"a", "a">>,                 \* text without delimiter
      <<"LF">> }                    \* a bare line break

\* str.find(delim): first index (1-based) of delim in s, 0 when absent
Find(s, delim) ==
    IF \E i \in 1..Len(s) : s[i] = delim
    THEN CHOOSE i \in 1..Len(s) : s[i] = delim /\ \A j \in 1..(i-1) : s[j] # delim
    ELSE 0

\* the split_idx loop with the comparison turned round: latest index
SplitIdxLatest(s) ==
    LET hits == { Find(s, SENTENCE_DELIMITERS[d]) : d \in 1..Len(SENTENCE_DELIMITERS) } \ {0}
    IN IF hits = {} THEN 0
       ELSE CHOOSE i \in hits : \A j \in hits : i >= j

\* the split_idx loop of add_text_chunk: earliest index of any delimiter
SplitIdx(s) ==
    LET hits == { Find(s, SENTENCE_DELIMITERS[d]) : d \in 1..Len(SENTENCE_DELIMITERS) } \ {0}
    IN IF hits = {} THEN 0
       ELSE CHOOSE i \in hits : \A j \in hits : i <= j

RECURSIVE LStrip(_)
LStrip(s) == IF s # <<>> /\ Head(s) \in Whitespace THEN LStrip(Tail(s)) ELSE s

RECURSIVE RStrip(_)
RStrip(s) ==
    IF s # <<>> /\ s[Len(s)] \in Whitespace THEN RStrip(SubSeq(s, 1, Len(s)-1)) ELSE s

Strip(s) == RStrip(LStrip(s))

\* _is_valid_tts_text with a minimum of one valid character
IsValidTtsTextOne(text) ==
    Cardinality({ i \in 1..Len(text) : text[i] \in ValidChars }) >= 1

\* _is_valid_tts_text
IsValidTtsText(text) ==
    Cardinality({ i \in 1..Len(text) : text[i] \in ValidChars }) >= 2

\* ------------------------------------------------------------------------
\* State
\* ------------------------------------------------------------------------
VARIABLES
    \* StreamingTTSWorker fields
    text_buffer,        \* text not yet cut into a sentence
    audio_queue,        \* queue.Queue of (chunk_id, audio); audio is named by its chunk id
    chunk_id,           \* next sequence number
    is_running,
    is_finished,
    first_audio_played, \* tts_started was emitted by this run
    tts_threads,        \* chunk id -> state of its synthesis thread
    \* locals of _play_audio_queue
    last_chunk_id,
    pending_chunks,     \* keys of the dict of chunks that arrived early
    empty_count,
    cur_chunk,          \* chunk handed to _play_chunk, -1 when none
    \* control
    pcPlay,             \* position of run() / _play_audio_queue
    pcText,             \* position of the caller of add_text_chunk / finish_text
    calls,              \* add_text_chunk calls made
    \* observation
    played,             \* chunk ids handed to _play_chunk, in order
    completionOrder,    \* chunk ids in the order their audio was posted
    stopReturned,       \* stop() has returned
    playedAfterStop,    \* music.play() was called after stop() returned
    tts_started_count,  \* number of tts_started emissions
    pcRun,              \* position of run() after play_thread.join()
    tts_finished_log,   \* one entry per tts_finished emission: had stop() returned
    exitKind,           \* how the consumer left its loop
    exitClean           \* whether everything was done when it left

schedVars == << text_buffer, audio_queue, chunk_id, is_running, is_finished, tts_threads,
                last_chunk_id, pending_chunks, empty_count, cur_chunk, pcPlay, pcText,
                calls, played, completionOrder, stopReturned, playedAfterStop,
                exitKind, exitClean, first_audio_played, tts_started_count,
                pcRun, tts_finished_log >>

\* one synthesis session (StreamingTTSWorker._tts_async, TTSWorker._stream_tts
\* with TTSWorker.run, TTSClient.synthesize)
VARIABLES
    ttsVariant,         \* which implementation runs the session
    ttsPc,              \* position in the session
    ttsSent,            \* event numbers of the request frames sent, in order
    ttsAcc,             \* audio accumulated (number of audio chunks)
    ttsGate1,           \* what was received while waiting for ConnectionStarted
    ttsGate2,           \* what was received while waiting for SessionStarted
    ttsLoopEnd,         \* how the receive loop ended
    ttsOutcome          \* what the session delivered to its consumer

ttsVars == << ttsVariant, ttsPc, ttsSent, ttsAcc, ttsGate1, ttsGate2, ttsLoopEnd, ttsOutcome >>

\* one recognition session of ASRWorker; times are in ticks of 0.5 s
VARIABLES
    now,                \* the clock
    speechStart,        \* the source is loud from speechStart ...
    speechEnd,          \* ... until speechEnd, and silent otherwise
    micNext,            \* index of the next frame the recorder delivers
    is_recording,       \* AudioRecorder.is_recording
    audio_buffer,       \* AudioRecorder.audio_buffer (amplitude of each frame)
    asr_is_running,     \* ASRWorker.is_running
    has_detected_voice, \* local of _send_audio
    last_voice_time,    \* local of _send_audio
    wait_start_time,    \* local of _recv_result, -1 for None
    final_text,         \* ASRWorker.final_text (0: empty, n: the n-th transcript)
    pcAsr,              \* position of run() / _stream_asr
    pcSend,             \* position of _send_audio
    pcRecv,             \* position of _recv_result
    recvDeadline,       \* when the pending wait_for(recv) times out
    connOpen,           \* the transport is open
    serverFrames,       \* frames the server has sent
    \* observation
    asrStopCalled,      \* stop() was called
    loudObserved,       \* time _send_audio last saw a frame above the threshold, -1 if never
    lastPacketTime,     \* time the is-last-packet frame was sent, -1 if not sent
    quietSince,         \* time of the last packet or of the last frame received after it
    asr_finished,       \* transcript emitted by asr_finished, -1 if not emitted
    asr_finished_count, \* number of asr_finished emissions
    asr_error_count,    \* number of asr_error emissions
    recvEnd,            \* how _recv_result left its loop
    sentAfterRecvEnd,   \* an audio frame was sent after a frame ended the receive loop
    chat_called         \* _on_asr_finished started a chat call (non-empty transcript)

asrVars == << now, speechStart, speechEnd, micNext, is_recording, audio_buffer,
              asr_is_running, has_detected_voice, last_voice_time, wait_start_time,
              final_text, pcAsr, pcSend, pcRecv, recvDeadline, connOpen, serverFrames,
              asrStopCalled, loudObserved, lastPacketTime, quietSince, asr_finished,
              asr_finished_count, asr_error_count, recvEnd, sentAfterRecvEnd,
              chat_called >>

\* one frame through the codec
VARIABLES
    cdPc,               \* "idle", "frame" (a frame is there), "parsed"
    cdOrigin,           \* where the frame comes from: request encoder or a server
    cdPayload,          \* the payload given to the request encoder
    cdFrame,            \* the bytes handed to the decoder
    cdWhole,            \* the bytes of the whole frame
    cdCut,              \* cdFrame is a proper prefix of cdWhole
    cdParser,           \* which decoder ran
    cdResult            \* what the decoder returned

codecVars == << cdPc, cdOrigin, cdPayload, cdFrame, cdWhole, cdCut, cdParser, cdResult >>

\* RobotStateMachine
VARIABLES
    sm_state,           \* _state
    sm_running,         \* _running
    sm_queue_created,   \* _event_queue is not None
    sm_event_queue,     \* the events in _event_queue
    sm_state_callbacks, \* the states that have a state-entry callback
    sm_event_callbacks, \* the events that have an event callback
    smLoop,             \* _event_loop: "idle", "running", "ended"
    \* observation of the last event processed
    smLastFrom,         \* the state in which it was processed
    smLastEvent,        \* the event
    smReturn,           \* what _transition returned
    smCalled,           \* the callbacks _transition called
    smRaised            \* what raised: callbacks, or the processing itself

\* the text side of StreamingTTSWorker on its own: what add_text_chunk and
\* finish_text make of the text they are given
VARIABLES
    seg_text_buffer,    \* text_buffer
    seg_chunk_id,       \* chunk_id
    seg_tts_threads,    \* chunk id -> synthesis thread, for the sessions opened
    seg_is_running,     \* is_running
    seg_is_finished,    \* is_finished
    seg_calls,          \* add_text_chunk calls made
    \* observation
    seg_input,          \* the text add_text_chunk has appended to text_buffer
    seg_spans,          \* the values of text_buffer[:split_idx + 1], in order
    seg_units,          \* the texts given to _start_tts_synthesis by add_text_chunk
    seg_final           \* the texts given to _start_tts_synthesis by finish_text

textVars == << seg_text_buffer, seg_chunk_id, seg_tts_threads, seg_is_running,
               seg_is_finished, seg_calls, seg_input, seg_spans, seg_units, seg_final >>

\* one chat call of ChatWorker (streaming mode)
VARIABLES
    chat_is_running,    \* ChatWorker.is_running
    chatPc,             \* position of run() / _call_chat_api_stream
    full_reply,         \* local full_reply: number of chunks accumulated
    chatLines,          \* lines taken from response.iter_lines()
    chatResult,         \* what _call_chat_api_stream returned: chunks, 0 for None
    \* observation
    chatStopReturned,   \* stop() has returned
    chatEmitted,        \* the signals emitted
    chatAfterStop       \* the signals emitted after stop() returned

chatVars == << chat_is_running, chatPc, full_reply, chatLines, chatResult,
               chatStopReturned, chatEmitted, chatAfterStop >>

\* one call of ASRClient.recognize_stream; a receive timeout is one tick of 0.5 s
VARIABLES
    acPc,               \* position of recognize_stream
    acSendPc,           \* position of _send_audio
    acRecvPc,           \* position of _recv_result
    acAudioLeft,        \* chunks the audio generator still yields
    acServerLeft,       \* frames the server still sends
    acConnOpen,         \* the transport is open
    ac_final_text,      \* local final_text of _recv_result (0: empty)
    acReturned,         \* what recognize_stream returned, -1 before
    \* observation
    acLastSent,         \* the last-packet frame was sent
    acQuiet,            \* receive timeouts since the last packet or the last frame
    acOnError           \* _on_error was called

acVars == << acPc, acSendPc, acRecvPc, acAudioLeft, acServerLeft, acConnOpen,
             ac_final_text, acReturned, acLastSent, acQuiet, acOnError >>

smVars == << sm_state, sm_running, sm_queue_created, sm_event_queue, sm_state_callbacks,
             sm_event_callbacks, smLoop, smLastFrom, smLastEvent, smReturn, smCalled,
             smRaised >>

\* the running robot: RobotStateMachine with the callbacks of VoiceAssistantRobot
VARIABLES
    rb_state,           \* state_machine._state
    rb_event_queue,     \* the events in state_machine._event_queue
    rb_callback,        \* the state whose entry callback _transition awaits, or "none"
    \* observation
    rbChange,           \* how _state last changed: "table", "direct", "none"
    rbInterrupted,      \* INTERRUPT_REQUESTED was emitted while the awaited callback ran
    rbFinishedAfterInterrupt  \* a component completed although it was interrupted

robotVars == << rb_state, rb_event_queue, rb_callback, rbChange, rbInterrupted,
                rbFinishedAfterInterrupt >>

\* the recorder of the headless robot (AudioRecorder.start, read_chunk,
\* stream_audio, stop); time in ticks of 0.5 s
VARIABLES
    rec_recording,       \* _recording
    rec_last_sound_time, \* _last_sound_time
    rec_start_time,      \* local start_time of stream_audio
    rec_clock,           \* time.time()
    recPc,               \* position of stream_audio
    \* observation
    recHeard,            \* a non-silent chunk was read
    recEnd               \* why stream_audio ended

recVars == << rec_recording, rec_last_sound_time, rec_start_time, rec_clock, recPc,
              recHeard, recEnd >>

\* the upload side of one recognition session, frame by frame
\* (ASRWorker.run with its buffer_audio thread, _stream_asr and _send_audio;
\* ASRClient.recognize_stream and _send_audio)
VARIABLES
    upVariant,           \* "worker" (ASRWorker) or "client" (ASRClient)
    up_is_running,       \* ASRWorker.is_running
    up_ws_ready,         \* ASRWorker.ws_ready
    up_audio_buffer,     \* AudioRecorder.audio_buffer: the frames buffered
    up_buffered_frames,  \* local buffered_frames of _send_audio, still to send
    upMic,               \* number of the next frame the microphone delivers
    upBufPc,             \* buffer_audio thread: "off", "loop", "append"
    upBufFrame,          \* the frame read_chunk_to_buffer has read, not yet appended
    upPc,                \* position of _stream_asr / _send_audio
    \* observation
    upSent,              \* the frames sent, in order: <<type, is_last, payload>>
    upSilenceFrame       \* the frame on which the silence timeout ended the loop

upVars == << upVariant, up_is_running, up_ws_ready, up_audio_buffer, up_buffered_frames,
             upMic, upBufPc, upBufFrame, upPc, upSent, upSilenceFrame >>

vars == << schedVars, ttsVars, asrVars, codecVars, smVars, textVars, chatVars, acVars, robotVars,
          recVars, upVars >>

\* local max_empty_wait of _play_audio_queue: 100 polls of 0.1 s in the source,
\* scaled here to 2 polls; the guard that uses it is unchanged
max_empty_wait == 2

\* ------------------------------------------------------------------------
\* Scheduler: operations
\* ------------------------------------------------------------------------
\* threading.Thread.is_alive(): started and not yet finished
IsAlive(st) == st \in {"run", "posted"}

\* _start_tts_synthesis called from add_text_chunk: filter, create the thread
\* and start it
StartTtsSynthesis(threads, text, cid) ==
    IF IsValidTtsText(text) THEN threads @@ (cid :> "run") ELSE threads

\* the while loop of add_text_chunk; spans are the values of
\* text_buffer[:split_idx + 1], units the sentences given to
\* _start_tts_synthesis
RECURSIVE Segment(_, _, _)
Segment(buf, cid, threads) ==
    LET idx == SplitIdx(buf) IN
    IF idx = 0
    THEN [buf |-> buf, cid |-> cid, threads |-> threads, spans |-> <<>>, units |-> <<>>]
    ELSE LET span     == SubSeq(buf, 1, idx)
             sentence == Strip(span)
             rest     == SubSeq(buf, idx + 1, Len(buf))
             r == IF sentence # <<>>
                  THEN Segment(rest, cid + 1, StartTtsSynthesis(threads, sentence, cid))
                  ELSE Segment(rest, cid, threads)
         IN [r EXCEPT !.spans = <<span>> \o @,
                      !.units = IF sentence # <<>> THEN <<sentence>> \o @ ELSE @]

\* chunk ids whose unit was dropped by the content filter
Rejected(k) == k \in 0..(chunk_id - 1) /\ k \notin DOMAIN tts_threads

\* chunk ids whose session ended without posting audio
Failed(k) == k \in DOMAIN tts_threads /\ tts_threads[k] = "failed"

\* audio of chunk k is still to come: session not finished, or audio queued
StillToCome(k) ==
    \/ k \in DOMAIN tts_threads /\ tts_threads[k] \in {"new", "run"}
    \/ \E i \in 1..Len(audio_queue) : audio_queue[i] = k

\* the branch condition of _play_audio_queue
IsNextExpectedAny(cid, last) == cid > last
IsNextExpected(cid, last) == cid = last + 1

\* the variables of the other components
otherThanSched == << ttsVars, asrVars, codecVars, smVars, textVars, chatVars, acVars, robotVars, recVars, upVars >>

SchedInit ==
    /\ text_buffer = <<>>
    /\ audio_queue = <<>>
    /\ chunk_id = 0
    /\ is_running = TRUE
    /\ is_finished = FALSE
    /\ tts_threads = << >>
    /\ last_chunk_id = -1
    /\ pending_chunks = {}
    /\ empty_count = 0
    /\ cur_chunk = -1
    /\ pcPlay = "start"
    /\ pcText = "open"
    /\ calls = 0
    /\ played = <<>>
    /\ completionOrder = <<>>
    /\ stopReturned = FALSE
    /\ playedAfterStop = FALSE
    /\ exitKind = "none"
    /\ exitClean = FALSE
    /\ first_audio_played = FALSE
    /\ tts_started_count = 0
    /\ pcRun = "join"
    /\ tts_finished_log = <<>>

\* add_text_chunk(chunk)
AddTextChunk(chunk) ==
    /\ pcText = "open"
    /\ calls < MaxCalls
    /\ calls' = calls + 1
    /\ IF ~is_running
       THEN UNCHANGED << text_buffer, chunk_id, tts_threads >>
       ELSE LET r == Segment(text_buffer \o chunk, chunk_id, tts_threads) IN
            /\ text_buffer' = r.buf
            /\ chunk_id' = r.cid
            /\ tts_threads' = r.threads
    /\ UNCHANGED << audio_queue, is_running, is_finished, last_chunk_id, pending_chunks,
                    empty_count, cur_chunk, pcPlay, pcText, played, completionOrder,
                    stopReturned, playedAfterStop, exitKind, exitClean >>
    /\ UNCHANGED << first_audio_played, tts_started_count >>
    /\ UNCHANGED << pcRun, tts_finished_log >>
    /\ UNCHANGED otherThanSched

\* finish_text, first statement: is_finished = True
FinishTextMark ==
    /\ pcText = "open"
    /\ is_finished' = TRUE
    /\ pcText' = IF Strip(text_buffer) # <<>> THEN "fin_create" ELSE "closed"
    /\ UNCHANGED << text_buffer, audio_queue, chunk_id, is_running, tts_threads,
                    last_chunk_id, pending_chunks, empty_count, cur_chunk, pcPlay, calls,
                    played, completionOrder, stopReturned, playedAfterStop, exitKind,
                    exitClean >>
    /\ UNCHANGED << first_audio_played, tts_started_count >>
    /\ UNCHANGED << pcRun, tts_finished_log >>
    /\ UNCHANGED otherThanSched

\* finish_text, _start_tts_synthesis of the remainder up to tts_threads.append;
\* a filtered remainder ends finish_text here
FinishTextCreate ==
    /\ pcText = "fin_create"
    /\ IF IsValidTtsText(Strip(text_buffer))
       THEN /\ tts_threads' = tts_threads @@ (chunk_id :> "new")
            /\ pcText' = "fin_start"
            /\ UNCHANGED << chunk_id, text_buffer >>
       ELSE /\ chunk_id' = chunk_id + 1
            /\ text_buffer' = <<>>
            /\ pcText' = "closed"
            /\ UNCHANGED tts_threads
    /\ UNCHANGED << audio_queue, is_running, is_finished, last_chunk_id, pending_chunks,
                    empty_count, cur_chunk, pcPlay, calls, played, completionOrder,
                    stopReturned, playedAfterStop, exitKind, exitClean >>
    /\ UNCHANGED << first_audio_played, tts_started_count >>
    /\ UNCHANGED << pcRun, tts_finished_log >>
    /\ UNCHANGED otherThanSched

\* finish_text, tts_thread.start() of the remainder and the rest of finish_text
FinishTextStart ==
    /\ pcText = "fin_start"
    /\ tts_threads' = [tts_threads EXCEPT ![chunk_id] = "run"]
    /\ chunk_id' = chunk_id + 1
    /\ text_buffer' = <<>>
    /\ pcText' = "closed"
    /\ UNCHANGED << audio_queue, is_running, is_finished, last_chunk_id, pending_chunks,
                    empty_count, cur_chunk, pcPlay, calls, played, completionOrder,
                    stopReturned, playedAfterStop, exitKind, exitClean >>
    /\ UNCHANGED << first_audio_played, tts_started_count >>
    /\ UNCHANGED << pcRun, tts_finished_log >>
    /\ UNCHANGED otherThanSched

\* _synthesize_chunk: the session returned audio, audio_queue.put
SynthPut(k) ==
    /\ k \in DOMAIN tts_threads
    /\ tts_threads[k] = "run"
    /\ tts_threads' = [tts_threads EXCEPT ![k] = "posted"]
    /\ audio_queue' = Append(audio_queue, k)
    /\ completionOrder' = Append(completionOrder, k)
    /\ UNCHANGED << text_buffer, chunk_id, is_running, is_finished, last_chunk_id,
                    pending_chunks, empty_count, cur_chunk, pcPlay, pcText, calls, played,
                    stopReturned, playedAfterStop, exitKind, exitClean >>
    /\ UNCHANGED << first_audio_played, tts_started_count >>
    /\ UNCHANGED << pcRun, tts_finished_log >>
    /\ UNCHANGED otherThanSched

\* _synthesize_chunk: the session returned None or raised; nothing is posted
SynthFail(k) ==
    /\ k \in DOMAIN tts_threads
    /\ tts_threads[k] = "run"
    /\ tts_threads' = [tts_threads EXCEPT ![k] = "failed"]
    /\ UNCHANGED << text_buffer, audio_queue, chunk_id, is_running, is_finished,
                    last_chunk_id, pending_chunks, empty_count, cur_chunk, pcPlay, pcText,
                    calls, played, completionOrder, stopReturned, playedAfterStop,
                    exitKind, exitClean >>
    /\ UNCHANGED << first_audio_played, tts_started_count >>
    /\ UNCHANGED << pcRun, tts_finished_log >>
    /\ UNCHANGED otherThanSched

\* the synthesis thread ends after its put
SynthExit(k) ==
    /\ k \in DOMAIN tts_threads
    /\ tts_threads[k] = "posted"
    /\ tts_threads' = [tts_threads EXCEPT ![k] = "done"]
    /\ UNCHANGED << text_buffer, audio_queue, chunk_id, is_running, is_finished,
                    last_chunk_id, pending_chunks, empty_count, cur_chunk, pcPlay, pcText,
                    calls, played, completionOrder, stopReturned, playedAfterStop,
                    exitKind, exitClean >>
    /\ UNCHANGED << first_audio_played, tts_started_count >>
    /\ UNCHANGED << pcRun, tts_finished_log >>
    /\ UNCHANGED otherThanSched

\* run(): is_running = True, then the play thread enters _play_audio_queue
Run ==
    /\ pcPlay = "start"
    /\ is_running' = TRUE
    /\ pcPlay' = "loop"
    /\ UNCHANGED << text_buffer, audio_queue, chunk_id, is_finished, tts_threads,
                    last_chunk_id, pending_chunks, empty_count, cur_chunk, pcText, calls,
                    played, completionOrder, stopReturned, playedAfterStop, exitKind,
                    exitClean >>
    /\ first_audio_played' = FALSE
    /\ UNCHANGED tts_started_count
    /\ UNCHANGED << pcRun, tts_finished_log >>
    /\ UNCHANGED otherThanSched

\* everything the completion condition of the consumer is about
AllDone ==
    /\ is_finished
    /\ pcText = "closed"
    /\ audio_queue = <<>>
    /\ pending_chunks = {}
    /\ \A k \in DOMAIN tts_threads : tts_threads[k] \in {"done", "failed"}

\* the consumer leaves the loop of _play_audio_queue
LeaveLoop(kind) ==
    /\ pcPlay' = "exit"
    /\ exitKind' = kind
    /\ exitClean' = AllDone

\* while self.is_running
PlayLoopCheck ==
    /\ pcPlay = "loop"
    /\ IF is_running
       THEN pcPlay' = "get" /\ UNCHANGED << exitKind, exitClean >>
       ELSE LeaveLoop("stopped")
    /\ UNCHANGED << text_buffer, audio_queue, chunk_id, is_running, is_finished,
                    tts_threads, last_chunk_id, pending_chunks, empty_count, cur_chunk,
                    pcText, calls, played, completionOrder, stopReturned, playedAfterStop >>
    /\ UNCHANGED << first_audio_played, tts_started_count >>
    /\ UNCHANGED << pcRun, tts_finished_log >>
    /\ UNCHANGED otherThanSched

\* _play_chunk up to music.play(), with tts_started emitted on every call
PlayChunkAlwaysStarted(k) ==
    /\ first_audio_played' = TRUE
    /\ tts_started_count' = tts_started_count + 1
    /\ played' = Append(played, k)
    /\ playedAfterStop' = (playedAfterStop \/ stopReturned)
    /\ cur_chunk' = k
    /\ pcPlay' = "playing"

\* _play_chunk up to music.play(): tts_started on the first call of the run
PlayChunk(k) ==
    /\ first_audio_played' = TRUE
    /\ tts_started_count' = IF first_audio_played THEN tts_started_count
                            ELSE tts_started_count + 1
    /\ played' = Append(played, k)
    /\ playedAfterStop' = (playedAfterStop \/ stopReturned)
    /\ cur_chunk' = k
    /\ pcPlay' = "playing"

\* audio_queue.get returned a chunk: play it or store it
PlayGet ==
    /\ pcPlay = "get"
    /\ audio_queue # <<>>
    /\ LET k == Head(audio_queue) IN
       /\ audio_queue' = Tail(audio_queue)
       /\ empty_count' = 0
       /\ IF IsNextExpected(k, last_chunk_id)
          THEN /\ PlayChunk(k)
               /\ UNCHANGED pending_chunks
          ELSE /\ pending_chunks' = pending_chunks \cup {k}
               /\ pcPlay' = "loop"
               /\ UNCHANGED << played, playedAfterStop, cur_chunk, first_audio_played,
                               tts_started_count >>
    /\ UNCHANGED << text_buffer, chunk_id, is_running, is_finished, tts_threads,
                    last_chunk_id, pcText, calls, completionOrder, stopReturned, exitKind,
                    exitClean >>
    /\ UNCHANGED << pcRun, tts_finished_log >>
    /\ UNCHANGED otherThanSched

\* _play_chunk returns (playback over, or is_running false); the caller
\* advances last_chunk_id
PlayChunkDone ==
    /\ pcPlay = "playing"
    /\ last_chunk_id' = cur_chunk
    /\ cur_chunk' = -1
    /\ pcPlay' = "drain"
    /\ UNCHANGED << text_buffer, audio_queue, chunk_id, is_running, is_finished,
                    tts_threads, pending_chunks, empty_count, pcText, calls, played,
                    completionOrder, stopReturned, playedAfterStop, exitKind, exitClean >>
    /\ UNCHANGED << first_audio_played, tts_started_count >>
    /\ UNCHANGED << pcRun, tts_finished_log >>
    /\ UNCHANGED otherThanSched

\* the drain loop with pending_chunks[...] read instead of popped
PlayDrainKeep ==
    /\ pcPlay = "drain"
    /\ IF (last_chunk_id + 1) \in pending_chunks
       THEN /\ UNCHANGED pending_chunks
            /\ PlayChunk(last_chunk_id + 1)
       ELSE /\ pcPlay' = "loop"
            /\ UNCHANGED << pending_chunks, played, playedAfterStop, cur_chunk,
                            first_audio_played, tts_started_count >>
    /\ UNCHANGED << text_buffer, audio_queue, chunk_id, is_running, is_finished,
                    tts_threads, last_chunk_id, empty_count, pcText, calls,
                    completionOrder, stopReturned, exitKind, exitClean >>
    /\ UNCHANGED << pcRun, tts_finished_log >>
    /\ UNCHANGED otherThanSched

\* while last_chunk_id + 1 in pending_chunks: pop and play
PlayDrain ==
    /\ pcPlay = "drain"
    /\ IF (last_chunk_id + 1) \in pending_chunks
       THEN /\ pending_chunks' = pending_chunks \ {last_chunk_id + 1}
            /\ PlayChunk(last_chunk_id + 1)
       ELSE /\ pcPlay' = "loop"
            /\ UNCHANGED << pending_chunks, played, playedAfterStop, cur_chunk,
                            first_audio_played, tts_started_count >>
    /\ UNCHANGED << text_buffer, audio_queue, chunk_id, is_running, is_finished,
                    tts_threads, last_chunk_id, empty_count, pcText, calls,
                    completionOrder, stopReturned, exitKind, exitClean >>
    /\ UNCHANGED << pcRun, tts_finished_log >>
    /\ UNCHANGED otherThanSched

\* audio_queue.get timed out (queue.Empty): count, first completion test
PlayEmpty ==
    /\ pcPlay = "get"
    /\ audio_queue = <<>>
    /\ empty_count' = IF empty_count > max_empty_wait THEN empty_count ELSE empty_count + 1
    /\ pcPlay' = IF is_finished /\ audio_queue = <<>> /\ pending_chunks = {}
                 THEN "chk_threads" ELSE "chk_timeout"
    /\ UNCHANGED << text_buffer, audio_queue, chunk_id, is_running, is_finished,
                    tts_threads, last_chunk_id, pending_chunks, cur_chunk, pcText, calls,
                    played, completionOrder, stopReturned, playedAfterStop, exitKind,
                    exitClean >>
    /\ UNCHANGED << first_audio_played, tts_started_count >>
    /\ UNCHANGED << pcRun, tts_finished_log >>
    /\ UNCHANGED otherThanSched

\* for t in self.tts_threads: if t.is_alive(): all_done = False
PlayCheckThreads ==
    /\ pcPlay = "chk_threads"
    /\ pcPlay' = IF \A k \in DOMAIN tts_threads : ~IsAlive(tts_threads[k])
                 THEN "chk_final" ELSE "chk_timeout"
    /\ UNCHANGED << text_buffer, audio_queue, chunk_id, is_running, is_finished,
                    tts_threads, last_chunk_id, pending_chunks, empty_count, cur_chunk,
                    pcText, calls, played, completionOrder, stopReturned, playedAfterStop,
                    exitKind, exitClean >>
    /\ UNCHANGED << first_audio_played, tts_started_count >>
    /\ UNCHANGED << pcRun, tts_finished_log >>
    /\ UNCHANGED otherThanSched

\* if all_done and self.audio_queue.empty() and not pending_chunks: break
PlayCheckFinal ==
    /\ pcPlay = "chk_final"
    /\ IF audio_queue = <<>> /\ pending_chunks = {}
       THEN LeaveLoop("complete")
       ELSE pcPlay' = "chk_timeout" /\ UNCHANGED << exitKind, exitClean >>
    /\ UNCHANGED << text_buffer, audio_queue, chunk_id, is_running, is_finished,
                    tts_threads, last_chunk_id, pending_chunks, empty_count, cur_chunk,
                    pcText, calls, played, completionOrder, stopReturned, playedAfterStop >>
    /\ UNCHANGED << first_audio_played, tts_started_count >>
    /\ UNCHANGED << pcRun, tts_finished_log >>
    /\ UNCHANGED otherThanSched

\* if empty_count > max_empty_wait and self.is_finished: break
PlayCheckTimeout ==
    /\ pcPlay = "chk_timeout"
    /\ IF empty_count > max_empty_wait /\ is_finished
       THEN LeaveLoop("timeout")
       ELSE pcPlay' = "loop" /\ UNCHANGED << exitKind, exitClean >>
    /\ UNCHANGED << text_buffer, audio_queue, chunk_id, is_running, is_finished,
                    tts_threads, last_chunk_id, pending_chunks, empty_count, cur_chunk,
                    pcText, calls, played, completionOrder, stopReturned, playedAfterStop >>
    /\ UNCHANGED << first_audio_played, tts_started_count >>
    /\ UNCHANGED << pcRun, tts_finished_log >>
    /\ UNCHANGED otherThanSched

\* run() after play_thread.join(): if self.is_running
RunCheck ==
    /\ pcPlay = "exit"
    /\ pcRun = "join"
    /\ pcRun' = IF is_running THEN "emit" ELSE "end"
    /\ UNCHANGED << text_buffer, audio_queue, chunk_id, is_running, is_finished,
                    tts_threads, last_chunk_id, pending_chunks, empty_count, cur_chunk,
                    pcPlay, pcText, calls, played, completionOrder, stopReturned,
                    playedAfterStop, exitKind, exitClean, first_audio_played,
                    tts_started_count, tts_finished_log >>
    /\ UNCHANGED otherThanSched

\* run(): self.signals.tts_finished.emit(), then run() returns
RunEmit ==
    /\ pcRun = "emit"
    /\ tts_finished_log' = Append(tts_finished_log, stopReturned)
    /\ pcRun' = "end"
    /\ UNCHANGED << text_buffer, audio_queue, chunk_id, is_running, is_finished,
                    tts_threads, last_chunk_id, pending_chunks, empty_count, cur_chunk,
                    pcPlay, pcText, calls, played, completionOrder, stopReturned,
                    playedAfterStop, exitKind, exitClean, first_audio_played,
                    tts_started_count >>
    /\ UNCHANGED otherThanSched

\* stop(), called while the worker thread is running: is_running = False,
\* music.stop()
Stop ==
    /\ ~stopReturned
    /\ pcRun # "end"
    /\ is_running' = FALSE
    /\ stopReturned' = TRUE
    /\ UNCHANGED << text_buffer, audio_queue, chunk_id, is_finished, tts_threads,
                    last_chunk_id, pending_chunks, empty_count, cur_chunk, pcPlay, pcText,
                    calls, played, completionOrder, playedAfterStop, exitKind, exitClean >>
    /\ UNCHANGED << first_audio_played, tts_started_count >>
    /\ UNCHANGED << pcRun, tts_finished_log >>
    /\ UNCHANGED otherThanSched

SchedNext ==
    \/ \E chunk \in InputChunks : AddTextChunk(chunk)
    \/ FinishTextMark
    \/ FinishTextCreate
    \/ FinishTextStart
    \/ \E k \in DOMAIN tts_threads : SynthPut(k)
    \/ \E k \in DOMAIN tts_threads : SynthFail(k)
    \/ \E k \in DOMAIN tts_threads : SynthExit(k)
    \/ Run
    \/ PlayLoopCheck
    \/ PlayGet
    \/ PlayChunkDone
    \/ PlayDrain
    \/ PlayEmpty
    \/ PlayCheckThreads
    \/ PlayCheckFinal
    \/ PlayCheckTimeout
    \/ RunCheck
    \/ RunEmit
    \/ Stop

\* ------------------------------------------------------------------------
\* Scheduler: properties
\* ------------------------------------------------------------------------
\* the consumer is between two iterations of its loop (not inside _play_chunk
\* or the drain loop)
AtLoopBoundary == pcPlay \in {"loop", "get", "chk_threads", "chk_final", "chk_timeout", "exit"}

\* every sequence number handed out so far belongs to a unit whose audio was posted
AllPosted == \A k \in 0..(chunk_id - 1) :
                k \in DOMAIN tts_threads /\ tts_threads[k] \in {"posted", "done"}

\* C1: the chunk ids handed to _play_chunk are always 0,1,2,... (none twice,
\* none skipped, none before a smaller one), and once the consumer has taken
\* the audio of all N dispatched units 0..N-1 from the queue, in whatever order
\* it was posted, exactly 0..N-1 has been played.
C1_PlaybackInSubmissionOrder ==
    /\ \A i \in 1..Len(played) : played[i] = i - 1
    /\ (AllPosted /\ audio_queue = <<>> /\ AtLoopBoundary /\ pcPlay # "start")
          => played = [i \in 1..chunk_id |-> i - 1]

\* three units completed in strict reverse order and were played in text order
C1_Witness == completionOrder = <<2, 1, 0>> /\ played = <<0, 1, 2>>

\* C2: once stop() has returned, _play_chunk starts no playback.
C2_NoPlaybackAfterStop == ~playedAfterStop

\* C3: a unit rejected by the content filter leaves no gap: the consumer never
\* holds back completed audio because the id it waits for is a rejected unit's.
C3_RejectedUnitLeavesNoGap ==
    (AtLoopBoundary /\ Rejected(last_chunk_id + 1)) => pending_chunks = {}

\* C4: a failed session is confined to its unit: the consumer never holds back
\* the completed audio of later units because the id it waits for is that of
\* a failed session.
C4_FailedUnitDoesNotBlock ==
    (AtLoopBoundary /\ Failed(last_chunk_id + 1)) => pending_chunks = {}

\* C5: without a stop request the consumer leaves its loop only when
\* finish_text was called, the queue and pending_chunks are empty and no
\* session is in flight (the remainder's session included).
C5_LeavesOnlyWhenDone ==
    (pcPlay = "exit" /\ ~stopReturned) => exitClean

C23_ReorderBufferInvariant ==
    /\ AtLoopBoundary => \A k \in pending_chunks : k > last_chunk_id + 1
    /\ \A k \in pending_chunks : \A i \in 1..Len(played) : played[i] # k

\* unit 0 was played while unit 2, which completed early, waits for unit 1
C23_Witness ==
    AtLoopBoundary /\ played = <<0>> /\ last_chunk_id = 0 /\ pending_chunks = {2}

\* C31: with no stop requested, every session successful and finish_text
\* returned, the consumer does not leave its loop while a unit that was
\* accepted for synthesis is still unplayed.
C31_NoExitBeforeAcceptedUnitsPlayed ==
    ( /\ pcPlay = "exit"
      /\ ~stopReturned
      /\ pcText = "closed"
      /\ \A k \in DOMAIN tts_threads : tts_threads[k] \in {"posted", "done"} )
        => \A k \in DOMAIN tts_threads : \E i \in 1..Len(played) : played[i] = k

\* C32: once stop() has returned no synthesis session is active, neither one
\* that was in flight at the stop nor one opened afterwards by add_text_chunk
\* or finish_text.
C32_NoActiveSessionAfterStop ==
    stopReturned => \A k \in DOMAIN tts_threads : tts_threads[k] \notin {"new", "run"}

\* C35: once stop() has set is_running to false it stays false, whatever the
\* interleaving of stop() with the beginning of run().
C35_StopIsNeverUndone == stopReturned => ~is_running

\* C37: tts_finished is emitted at most once per run, only after the consumer
\* has left its loop, and never once stop() has returned.
C37_FinishedOnceAndNotAfterStop ==
    /\ Len(tts_finished_log) <= 1
    /\ tts_finished_log # <<>> => pcPlay = "exit"
    /\ \A i \in 1..Len(tts_finished_log) : ~tts_finished_log[i]

\* ------------------------------------------------------------------------
\* Synthesis session
\* ------------------------------------------------------------------------
\* bound: audio chunks the server sends in one session
MaxAudio == 2

EVENT_START_CONNECTION == 1
EVENT_FINISH_CONNECTION == 2
EVENT_CONNECTION_STARTED == 50
EVENT_CONNECTION_FAILED == 51
EVENT_START_SESSION == 100
EVENT_FINISH_SESSION == 102
EVENT_SESSION_STARTED == 150
EVENT_SESSION_CANCELED == 151
EVENT_SESSION_FINISHED == 152
EVENT_SESSION_FAILED == 153
EVENT_TASK_REQUEST == 200
EVENT_TTS_RESPONSE == 352
\* TTSClient.EVENT_TTS_RESPONSE
CLIENT_EVENT_TTS_RESPONSE == 250

\* message types of the response header, and the flag "with event number"
MT_FULL_SERVER_RESPONSE == 9
MT_AUDIO_ONLY_RESPONSE == 11
MT_ERROR == 15
FLAG_WITH_EVENT == 4

\* res.get("event") when the frame carries no event number
NoEvent == -1

Variants == {"streaming", "worker", "client"}

\* a received message: header fields, event number (when flagged) and the
\* number of audio chunks it carries.  For TTSClient, whose messages are
\* websocket text or binary messages, MT_AUDIO_ONLY_RESPONSE stands for a
\* binary message and the other types for a JSON text with the event.
Frame(mt, flags, ev, audio) ==
    [kind |-> "frame", mt |-> mt, flags |-> flags, event |-> ev, audio |-> audio]

ServerFrames ==
    { Frame(MT_FULL_SERVER_RESPONSE, FLAG_WITH_EVENT, EVENT_CONNECTION_STARTED, 0),
      Frame(MT_FULL_SERVER_RESPONSE, FLAG_WITH_EVENT, EVENT_CONNECTION_FAILED, 0),
      Frame(MT_FULL_SERVER_RESPONSE, FLAG_WITH_EVENT, EVENT_SESSION_STARTED, 0),
      Frame(MT_FULL_SERVER_RESPONSE, FLAG_WITH_EVENT, EVENT_SESSION_CANCELED, 0),
      Frame(MT_FULL_SERVER_RESPONSE, FLAG_WITH_EVENT, EVENT_SESSION_FINISHED, 0),
      Frame(MT_FULL_SERVER_RESPONSE, FLAG_WITH_EVENT, EVENT_SESSION_FAILED, 0),
      Frame(MT_FULL_SERVER_RESPONSE, 0, NoEvent, 0),
      Frame(MT_AUDIO_ONLY_RESPONSE, FLAG_WITH_EVENT, EVENT_TTS_RESPONSE, 1),
      Frame(MT_ERROR, 0, NoEvent, 0) }

\* what a receive can yield besides a frame
NoFrame == [kind |-> "none", mt |-> 0, flags |-> 0, event |-> NoEvent, audio |-> 0]
RecvTimeout == [kind |-> "timeout", mt |-> 0, flags |-> 0, event |-> NoEvent, audio |-> 0]
ConnClosed == [kind |-> "closed", mt |-> 0, flags |-> 0, event |-> NoEvent, audio |-> 0]

\* _parse_tts_response on a well-formed frame: error, event number, audio
ParseTtsResponse(f) ==
    IF f.mt = MT_ERROR
    THEN [error |-> TRUE, event |-> NoEvent, audio |-> 0]
    ELSE [error |-> FALSE,
          event |-> IF f.flags = FLAG_WITH_EVENT THEN f.event ELSE NoEvent,
          audio |-> IF f.mt = MT_AUDIO_ONLY_RESPONSE THEN f.audio ELSE 0]

\* json.loads(response).get("event") of TTSClient; a binary message is not JSON
ClientEvent(f) == IF f.flags = FLAG_WITH_EVENT THEN f.event ELSE NoEvent
ClientIsJson(f) == f.mt # MT_AUDIO_ONLY_RESPONSE

\* the test after each gating receive: the session goes on iff it holds
GateOkAnyEvent(v, f, expected) ==
    IF v = "client" THEN ClientIsJson(f) ELSE ~ParseTtsResponse(f).error
GateOk(v, f, expected) ==
    IF v = "client"
    THEN ClientIsJson(f) /\ ClientEvent(f) = expected
    ELSE ~ParseTtsResponse(f).error /\ ParseTtsResponse(f).event = expected

\* what a receive of the implementation can yield: the binary implementations
\* bound every receive with asyncio.wait_for, TTSClient does not
RecvOutcomes(v) ==
    ServerFrames \cup {ConnClosed} \cup (IF v = "client" THEN {} ELSE {RecvTimeout})

TtsInit ==
    /\ ttsVariant = "streaming"
    /\ ttsPc = "idle"
    /\ ttsSent = <<>>
    /\ ttsAcc = 0
    /\ ttsGate1 = NoFrame
    /\ ttsGate2 = NoFrame
    /\ ttsLoopEnd = "none"
    /\ ttsOutcome = "pending"

otherThanTts == << schedVars, asrVars, codecVars, smVars, textVars, chatVars, acVars, robotVars, recVars, upVars >>

\* the session's result when it is abandoned at a gate or by an exception:
\* _tts_async returns None, _stream_tts raises and run() emits tts_error,
\* synthesize returns the bytes accumulated so far
TtsAbort ==
    /\ ttsPc' = "done"
    /\ ttsOutcome' = IF ttsVariant = "client" /\ ttsAcc > 0 THEN "audio" ELSE "none"

\* websockets.connect succeeded
TtsOpen(v) ==
    /\ ttsPc = "idle"
    /\ ttsVariant' = v
    /\ ttsPc' = "start"
    /\ UNCHANGED << ttsSent, ttsAcc, ttsGate1, ttsGate2, ttsLoopEnd, ttsOutcome >>
    /\ UNCHANGED otherThanTts

\* 1. StartConnection
TtsStartConnection ==
    /\ ttsPc = "start"
    /\ ttsSent' = Append(ttsSent, EVENT_START_CONNECTION)
    /\ ttsPc' = "gate1"
    /\ UNCHANGED << ttsVariant, ttsAcc, ttsGate1, ttsGate2, ttsLoopEnd, ttsOutcome >>
    /\ UNCHANGED otherThanTts

\* wait for ConnectionStarted, then 2. StartSession
TtsGate1(r) ==
    /\ ttsPc = "gate1"
    /\ r \in RecvOutcomes(ttsVariant)
    /\ ttsGate1' = r
    /\ IF r \in ServerFrames /\ GateOk(ttsVariant, r, EVENT_CONNECTION_STARTED)
       THEN /\ ttsSent' = Append(ttsSent, EVENT_START_SESSION)
            /\ ttsPc' = "gate2"
            /\ UNCHANGED ttsOutcome
       ELSE /\ TtsAbort
            /\ UNCHANGED ttsSent
    /\ UNCHANGED << ttsVariant, ttsAcc, ttsGate2, ttsLoopEnd >>
    /\ UNCHANGED otherThanTts

\* wait for SessionStarted, then 3. TaskRequest (and, in the binary
\* implementations, 4. FinishSession right after it)
TtsGate2(r) ==
    /\ ttsPc = "gate2"
    /\ r \in RecvOutcomes(ttsVariant)
    /\ ttsGate2' = r
    /\ IF r \in ServerFrames /\ GateOk(ttsVariant, r, EVENT_SESSION_STARTED)
       THEN /\ ttsSent' = IF ttsVariant = "client"
                          THEN Append(ttsSent, EVENT_TASK_REQUEST)
                          ELSE ttsSent \o << EVENT_TASK_REQUEST, EVENT_FINISH_SESSION >>
            /\ ttsPc' = "recv"
            /\ UNCHANGED ttsOutcome
       ELSE /\ TtsAbort
            /\ UNCHANGED ttsSent
    /\ UNCHANGED << ttsVariant, ttsAcc, ttsGate1, ttsLoopEnd >>
    /\ UNCHANGED otherThanTts

\* the receive loop ends by break
TtsBreak(how) ==
    /\ ttsLoopEnd' = how
    /\ ttsPc' = "after"
    /\ UNCHANGED << ttsAcc, ttsOutcome >>

\* one iteration of the receive loop of StreamingTTSWorker._tts_async
TtsRecvStreaming(r) ==
    /\ ttsPc = "recv" /\ ttsVariant = "streaming"
    /\ r \in RecvOutcomes(ttsVariant)
    /\ r \in ServerFrames => ttsAcc + r.audio <= MaxAudio
    /\ IF r = RecvTimeout THEN TtsBreak("timeout")
       ELSE IF r = ConnClosed THEN TtsAbort /\ UNCHANGED << ttsAcc, ttsLoopEnd >>
       ELSE LET res == ParseTtsResponse(r) IN
            IF res.error THEN TtsBreak("error")
            ELSE IF res.event = EVENT_SESSION_FINISHED
                 THEN /\ ttsAcc' = ttsAcc + res.audio
                      /\ ttsLoopEnd' = "finished"
                      /\ ttsPc' = "after"
                      /\ UNCHANGED ttsOutcome
            ELSE IF res.event = EVENT_SESSION_FAILED
                 THEN /\ ttsAcc' = ttsAcc + res.audio
                      /\ ttsLoopEnd' = "failed"
                      /\ ttsPc' = "after"
                      /\ UNCHANGED ttsOutcome
            ELSE /\ ttsAcc' = ttsAcc + res.audio
                 /\ UNCHANGED << ttsLoopEnd, ttsPc, ttsOutcome >>
    /\ UNCHANGED << ttsVariant, ttsSent, ttsGate1, ttsGate2 >>
    /\ UNCHANGED otherThanTts

\* one iteration of the receive loop of TTSWorker._stream_tts
TtsRecvWorker(r) ==
    /\ ttsPc = "recv" /\ ttsVariant = "worker"
    /\ r \in RecvOutcomes(ttsVariant)
    /\ r \in ServerFrames => ttsAcc + r.audio <= MaxAudio
    /\ IF r = RecvTimeout THEN TtsBreak("timeout")
       ELSE IF r = ConnClosed THEN TtsAbort /\ UNCHANGED << ttsAcc, ttsLoopEnd >>
       ELSE LET res == ParseTtsResponse(r) IN
            IF res.error THEN TtsBreak("error")
            ELSE IF res.event = EVENT_TTS_RESPONSE \/ res.audio > 0
                 THEN /\ ttsAcc' = ttsAcc + res.audio
                      /\ UNCHANGED << ttsLoopEnd, ttsPc, ttsOutcome >>
            ELSE IF res.event = EVENT_SESSION_FINISHED THEN TtsBreak("finished")
            ELSE IF res.event = EVENT_SESSION_FAILED
                 THEN TtsAbort /\ ttsLoopEnd' = "failed" /\ UNCHANGED ttsAcc
            ELSE UNCHANGED << ttsAcc, ttsLoopEnd, ttsPc, ttsOutcome >>
    /\ UNCHANGED << ttsVariant, ttsSent, ttsGate1, ttsGate2 >>
    /\ UNCHANGED otherThanTts

\* one iteration of the receive loop of TTSClient.synthesize
TtsRecvClient(r) ==
    /\ ttsPc = "recv" /\ ttsVariant = "client"
    /\ r \in RecvOutcomes(ttsVariant)
    /\ r \in ServerFrames => ttsAcc + r.audio <= MaxAudio
    /\ IF r = ConnClosed THEN TtsAbort /\ UNCHANGED << ttsAcc, ttsLoopEnd >>
       ELSE IF ~ClientIsJson(r)
            THEN /\ ttsAcc' = ttsAcc + r.audio
                 /\ UNCHANGED << ttsLoopEnd, ttsPc, ttsOutcome >>
       ELSE IF ClientEvent(r) = EVENT_SESSION_FINISHED THEN TtsBreak("finished")
       ELSE IF ClientEvent(r) \in {EVENT_SESSION_CANCELED, EVENT_CONNECTION_FAILED}
            THEN TtsBreak("canceled")
       ELSE UNCHANGED << ttsAcc, ttsLoopEnd, ttsPc, ttsOutcome >>
    /\ UNCHANGED << ttsVariant, ttsSent, ttsGate1, ttsGate2 >>
    /\ UNCHANGED otherThanTts

\* after the loop: the closing frames, and the result goes to the consumer:
\* _tts_async returns audio_data if audio_data else None (posted to the audio
\* queue when not None), TTSWorker.run plays self.audio_data when not empty,
\* synthesize returns bytes(audio_data)
TtsAfterLoop ==
    /\ ttsPc = "after"
    /\ ttsSent' = IF ttsVariant = "client"
                  THEN ttsSent \o << EVENT_FINISH_SESSION, EVENT_FINISH_CONNECTION >>
                  ELSE Append(ttsSent, EVENT_FINISH_CONNECTION)
    /\ ttsOutcome' = IF ttsAcc > 0 THEN "audio" ELSE "none"
    /\ ttsPc' = "done"
    /\ UNCHANGED << ttsVariant, ttsAcc, ttsGate1, ttsGate2, ttsLoopEnd >>
    /\ UNCHANGED otherThanTts

TtsNext ==
    \/ \E v \in Variants : TtsOpen(v)
    \/ TtsStartConnection
    \/ \E r \in RecvOutcomes(ttsVariant) : TtsGate1(r)
    \/ \E r \in RecvOutcomes(ttsVariant) : TtsGate2(r)
    \/ \E r \in RecvOutcomes(ttsVariant) : TtsRecvStreaming(r)
    \/ \E r \in RecvOutcomes(ttsVariant) : TtsRecvWorker(r)
    \/ \E r \in RecvOutcomes(ttsVariant) : TtsRecvClient(r)
    \/ TtsAfterLoop

\* ------------------------------------------------------------------------
\* Synthesis session: properties
\* ------------------------------------------------------------------------
\* the received message is the event frame ev
IsEventFrame(r, ev) ==
    /\ r \in ServerFrames
    /\ r.mt = MT_FULL_SERVER_RESPONSE
    /\ r.flags = FLAG_WITH_EVENT
    /\ r.event = ev

Sent(ev) == \E i \in 1..Len(ttsSent) : ttsSent[i] = ev

\* C6: a session whose receive loop ended without observing SessionFinished
\* never delivers its audio as a completed unit.
C6_TruncatedSessionIsFailure ==
    (ttsVariant \in {"streaming", "worker"} /\ ttsOutcome = "audio")
        => ttsLoopEnd = "finished"

\* C7: StartSession is sent only after ConnectionStarted was received and
\* TaskRequest only after SessionStarted; anything else received at a gate
\* aborts the session: no further request frame is sent and no audio is
\* delivered.
C7_GatedPhases ==
    /\ Sent(EVENT_START_SESSION) => IsEventFrame(ttsGate1, EVENT_CONNECTION_STARTED)
    /\ Sent(EVENT_TASK_REQUEST) => IsEventFrame(ttsGate2, EVENT_SESSION_STARTED)
    /\ (ttsGate1 # NoFrame /\ ~IsEventFrame(ttsGate1, EVENT_CONNECTION_STARTED))
          => /\ ttsPc = "done"
             /\ ttsSent = << EVENT_START_CONNECTION >>
             /\ ttsOutcome = "none"
    /\ (ttsGate2 # NoFrame /\ ~IsEventFrame(ttsGate2, EVENT_SESSION_STARTED))
          => /\ ttsPc = "done"
             /\ ttsSent = << EVENT_START_CONNECTION, EVENT_START_SESSION >>
             /\ ttsOutcome = "none"

\* a session that was aborted at the second gate by an error frame
C7_Witness ==
    /\ IsEventFrame(ttsGate1, EVENT_CONNECTION_STARTED)
    /\ ttsGate2 \in ServerFrames /\ ttsGate2.mt = MT_ERROR
    /\ ttsPc = "done"
    /\ ttsSent = << EVENT_START_CONNECTION, EVENT_START_SESSION >>

\* C27: TTSClient.synthesize sends FinishSession after TaskRequest before it
\* waits for SessionFinished: whenever it is in its receive loop, FinishSession
\* has been sent (so a server that answers FinishSession with SessionFinished
\* ends the loop).
C27_FinishSessionBeforeWaiting ==
    (ttsVariant = "client" /\ ttsPc = "recv") => Sent(EVENT_FINISH_SESSION)

\* ------------------------------------------------------------------------
\* Recognition session (ASRWorker)
\* ------------------------------------------------------------------------
\* bounds: the speech ends, and the connection is established, by T0Max;
\* the server sends at most MaxServerFrames frames
T0Max == 1
MaxServerFrames == 2

\* config.py; the timeouts are in ticks of 0.5 s (1.5 s, 1.5 s) and the
\* timeout of wait_for(websocket.recv()) in _recv_result is 0.5 s
SILENCE_THRESHOLD == 1000
SILENCE_TIMEOUT == 3
FINAL_WAIT_TIMEOUT == 3
RECV_TIMEOUT == 1

\* the surroundings (stop(), the server, the transport) act until EnvBy; the
\* clock runs long enough after that for every timer of the session to expire
EnvBy == T0Max + SILENCE_TIMEOUT + 2
MaxTime == EnvBy + FINAL_WAIT_TIMEOUT + 2 * RECV_TIMEOUT + 1

\* max(abs(s)) of the frame with index i: frame i covers the tick that ends at
\* time i; the source is loud in (speechStart, speechEnd]
FrameAmps(i) ==
    IF speechStart < i /\ i <= speechEnd
    THEN {SILENCE_THRESHOLD + 1}
    ELSE {0, SILENCE_THRESHOLD}

\* if frame_max > SILENCE_THRESHOLD
IsVoice(frame_max) == frame_max > SILENCE_THRESHOLD

\* if has_detected_voice: (the silence test is made only then)
SilenceCheckAlways(has) == TRUE
SilenceCheckArmed(has) == has

\* if silence_duration >= SILENCE_TIMEOUT
SilenceExpiredEarly(silence_duration) == silence_duration >= SILENCE_TIMEOUT - 1
SilenceExpired(silence_duration) == silence_duration >= SILENCE_TIMEOUT

\* elif time.time() - wait_start_time > FINAL_WAIT_TIMEOUT
FinalWaitNever(waited) == FALSE
FinalWaitExpired(waited) == waited > FINAL_WAIT_TIMEOUT

\* what _recv_result makes of a received frame: _parse_response returned None,
\* a transcript without definite utterance, a transcript with a definite
\* utterance, a frame flagged as last packet, an error frame
FrameKinds == {"unparsable", "partial", "definite", "last", "error"}

\* await asyncio.gather(send_task, recv_task, return_exceptions=True) returns
\* when both tasks are done
GatherReturnedFirst == pcSend \in {"done", "failed"} \/ pcRecv = "done"
GatherReturned == pcSend \in {"done", "failed"} /\ pcRecv = "done"

\* the receive loop was left because of what a frame of the server said
RecvDecided == recvEnd \in {"finished", "error"}

otherThanAsr == << schedVars, ttsVars, codecVars, smVars, textVars, chatVars, acVars, robotVars, recVars, upVars >>

AsrInit ==
    /\ now = 0
    /\ speechStart = 0
    /\ speechEnd = 0
    /\ micNext = 1
    /\ is_recording = FALSE
    /\ audio_buffer = <<>>
    /\ asr_is_running = FALSE
    /\ has_detected_voice = FALSE
    /\ last_voice_time = 0
    /\ wait_start_time = -1
    /\ final_text = 0
    /\ pcAsr = "idle"
    /\ pcSend = "idle"
    /\ pcRecv = "idle"
    /\ recvDeadline = 0
    /\ connOpen = TRUE
    /\ serverFrames = 0
    /\ asrStopCalled = FALSE
    /\ loudObserved = -1
    /\ lastPacketTime = -1
    /\ quietSince = -1
    /\ asr_finished = -1
    /\ asr_finished_count = 0
    /\ asr_error_count = 0
    /\ recvEnd = "none"
    /\ sentAfterRecvEnd = FALSE
    /\ chat_called = FALSE


\* run(): is_running = True, recorder.start(); the source of this session is
\* loud in (t1, t0]
AsrRun(t1, t0) ==
    /\ pcAsr = "idle"
    /\ t0 \in 0..T0Max
    /\ t1 \in 0..t0
    /\ speechStart' = t1
    /\ speechEnd' = t0
    /\ asr_is_running' = TRUE
    /\ final_text' = 0
    /\ is_recording' = TRUE
    /\ audio_buffer' = <<>>
    /\ micNext' = now + 1
    /\ pcAsr' = "connecting"
    /\ UNCHANGED << now, has_detected_voice, last_voice_time, wait_start_time, pcSend,
                    pcRecv, recvDeadline, connOpen, serverFrames, asrStopCalled,
                    loudObserved, lastPacketTime, quietSince, asr_finished,
                    asr_finished_count, asr_error_count, recvEnd, sentAfterRecvEnd,
                    chat_called >>
    /\ UNCHANGED otherThanAsr

\* run(): recorder.start() failed; asr_error, and run() returns before
\* _stream_asr
AsrRunMicFail ==
    /\ pcAsr = "idle"
    /\ asr_is_running' = TRUE
    /\ final_text' = 0
    /\ pcAsr' = "nomic"
    /\ asr_error_count' = asr_error_count + 1
    /\ UNCHANGED << now, speechStart, speechEnd, micNext, is_recording, audio_buffer,
                    has_detected_voice, last_voice_time, wait_start_time, pcSend, pcRecv,
                    recvDeadline, connOpen, serverFrames, asrStopCalled, loudObserved,
                    lastPacketTime, quietSince, asr_finished, asr_finished_count,
                    recvEnd, sentAfterRecvEnd, chat_called >>
    /\ UNCHANGED otherThanAsr

\* buffer_audio: read_chunk_to_buffer while the connection is not ready
AsrBufferFrame(a) ==
    /\ pcAsr = "connecting"
    /\ asr_is_running /\ is_recording
    /\ micNext <= now
    /\ a \in FrameAmps(micNext)
    /\ audio_buffer' = Append(audio_buffer, a)
    /\ micNext' = micNext + 1
    /\ UNCHANGED << now, speechStart, speechEnd, is_recording, asr_is_running,
                    has_detected_voice, last_voice_time, wait_start_time, final_text,
                    pcAsr, pcSend, pcRecv, recvDeadline, connOpen, serverFrames,
                    asrStopCalled, loudObserved, lastPacketTime, quietSince,
                    asr_finished, asr_finished_count, asr_error_count, recvEnd,
                    sentAfterRecvEnd, chat_called >>
    /\ UNCHANGED otherThanAsr

\* _stream_asr: connected, full client request sent, ws_ready = True; the send
\* and receive tasks start
AsrConnect ==
    /\ pcAsr = "connecting"
    /\ connOpen
    /\ pcAsr' = "streaming"
    /\ pcSend' = "buffered"
    /\ last_voice_time' = now
    /\ has_detected_voice' = FALSE
    /\ pcRecv' = "recv"
    /\ recvDeadline' = now + RECV_TIMEOUT
    /\ wait_start_time' = -1
    /\ UNCHANGED << now, speechStart, speechEnd, micNext, is_recording, audio_buffer,
                    asr_is_running, final_text, connOpen, serverFrames, asrStopCalled,
                    loudObserved, lastPacketTime, quietSince, asr_finished,
                    asr_finished_count, asr_error_count, recvEnd, sentAfterRecvEnd,
                    chat_called >>
    /\ UNCHANGED otherThanAsr

\* _stream_asr: websockets.connect or the first send raised; asr_error, then
\* asr_finished in the finally clause, recorder.stop() in run()
AsrConnectFail ==
    /\ pcAsr = "connecting"
    /\ connOpen' = FALSE
    /\ pcAsr' = "finished"
    /\ asr_finished' = final_text
    /\ is_recording' = FALSE
    /\ asr_error_count' = asr_error_count + 1
    /\ asr_finished_count' = asr_finished_count + 1
    /\ chat_called' = (final_text # 0)
    /\ UNCHANGED << now, speechStart, speechEnd, micNext, audio_buffer, asr_is_running,
                    has_detected_voice, last_voice_time, wait_start_time, final_text,
                    pcSend, pcRecv, recvDeadline, serverFrames, asrStopCalled,
                    loudObserved, lastPacketTime, quietSince, recvEnd, sentAfterRecvEnd >>
    /\ UNCHANGED otherThanAsr

\* _send_audio: the frames recorded before the connection was ready
AsrSendBuffered ==
    LET sent == audio_buffer # <<>> /\ connOpen
    IN
    /\ pcAsr = "streaming"
    /\ pcSend = "buffered"
    /\ pcSend' = IF audio_buffer = <<>> THEN "loop" ELSE IF connOpen THEN "buffered" ELSE "failed"
    /\ audio_buffer' = IF audio_buffer # <<>> /\ connOpen THEN Tail(audio_buffer) ELSE audio_buffer
    /\ last_voice_time' = IF sent /\ IsVoice(Head(audio_buffer)) THEN now ELSE last_voice_time
    /\ has_detected_voice' = (has_detected_voice \/ (sent /\ IsVoice(Head(audio_buffer))))
    /\ loudObserved' = IF sent /\ Head(audio_buffer) > SILENCE_THRESHOLD THEN now ELSE loudObserved
    /\ sentAfterRecvEnd' = (sentAfterRecvEnd \/ (sent /\ RecvDecided))
    /\ UNCHANGED << now, speechStart, speechEnd, micNext, is_recording, asr_is_running,
                    wait_start_time, final_text, pcAsr, pcRecv, recvDeadline, connOpen,
                    serverFrames, asrStopCalled, lastPacketTime, quietSince,
                    asr_finished, asr_finished_count, asr_error_count, recvEnd,
                    chat_called >>
    /\ UNCHANGED otherThanAsr

\* _send_audio: while self.is_running fails
AsrSendLoopExit ==
    /\ pcAsr = "streaming"
    /\ pcSend = "loop"
    /\ ~asr_is_running
    /\ pcSend' = "last"
    /\ UNCHANGED << now, speechStart, speechEnd, micNext, is_recording, audio_buffer,
                    asr_is_running, has_detected_voice, last_voice_time, wait_start_time,
                    final_text, pcAsr, pcRecv, recvDeadline, connOpen, serverFrames,
                    asrStopCalled, loudObserved, lastPacketTime, quietSince,
                    asr_finished, asr_finished_count, asr_error_count, recvEnd,
                    sentAfterRecvEnd, chat_called >>
    /\ UNCHANGED otherThanAsr

\* _send_audio: one iteration of the live loop with a frame from the recorder
AsrSendLive(a) ==
    LET lvt == IF IsVoice(a) THEN now ELSE last_voice_time
        has == has_detected_voice \/ IsVoice(a)
        expired == SilenceCheckArmed(has) /\ SilenceExpired(now - lvt)
    IN
    /\ pcAsr = "streaming"
    /\ pcSend = "loop"
    /\ asr_is_running /\ is_recording
    /\ micNext <= now
    /\ a \in FrameAmps(micNext)
    /\ micNext' = micNext + 1
    /\ last_voice_time' = lvt
    /\ has_detected_voice' = has
    /\ loudObserved' = IF a > SILENCE_THRESHOLD THEN now ELSE loudObserved
    /\ asr_is_running' = (~expired)
    /\ pcSend' = IF expired THEN "last" ELSE IF connOpen THEN "loop" ELSE "failed"
    /\ sentAfterRecvEnd' = (sentAfterRecvEnd \/ (~expired /\ connOpen /\ RecvDecided))
    /\ UNCHANGED << now, speechStart, speechEnd, is_recording, audio_buffer,
                    wait_start_time, final_text, pcAsr, pcRecv, recvDeadline, connOpen,
                    serverFrames, asrStopCalled, lastPacketTime, quietSince,
                    asr_finished, asr_finished_count, asr_error_count, recvEnd,
                    chat_called >>
    /\ UNCHANGED otherThanAsr

\* _send_audio: the end packet (is_last=True, empty payload)
AsrSendLast ==
    /\ pcAsr = "streaming"
    /\ pcSend = "last"
    /\ pcSend' = IF connOpen THEN "done" ELSE "failed"
    /\ lastPacketTime' = IF connOpen THEN now ELSE lastPacketTime
    /\ quietSince' = IF connOpen THEN now ELSE quietSince
    /\ UNCHANGED << now, speechStart, speechEnd, micNext, is_recording, audio_buffer,
                    asr_is_running, has_detected_voice, last_voice_time, wait_start_time,
                    final_text, pcAsr, pcRecv, recvDeadline, connOpen, serverFrames,
                    asrStopCalled, loudObserved, asr_finished, asr_finished_count,
                    asr_error_count, recvEnd, sentAfterRecvEnd, chat_called >>
    /\ UNCHANGED otherThanAsr

\* stop(): is_running = False, recorder.stop()
AsrStop ==
    /\ ~asrStopCalled
    /\ pcAsr # "finished"
    /\ now <= EnvBy
    /\ asr_is_running' = FALSE
    /\ is_recording' = FALSE
    /\ asrStopCalled' = TRUE
    /\ UNCHANGED << now, speechStart, speechEnd, micNext, audio_buffer,
                    has_detected_voice, last_voice_time, wait_start_time, final_text,
                    pcAsr, pcSend, pcRecv, recvDeadline, connOpen, serverFrames,
                    loudObserved, lastPacketTime, quietSince, asr_finished,
                    asr_finished_count, asr_error_count, recvEnd, sentAfterRecvEnd,
                    chat_called >>
    /\ UNCHANGED otherThanAsr

\* _recv_result: a frame arrived within the receive timeout
AsrRecvFrame(kind) ==
    /\ pcAsr = "streaming"
    /\ pcRecv = "recv"
    /\ connOpen
    /\ serverFrames < MaxServerFrames
    /\ now <= EnvBy
    /\ kind \in FrameKinds
    /\ serverFrames' = serverFrames + 1
    /\ wait_start_time' = -1
    /\ recvDeadline' = now + RECV_TIMEOUT
    /\ quietSince' = IF lastPacketTime >= 0 THEN now ELSE quietSince
    /\ final_text' = IF kind \in {"partial", "definite"} THEN final_text + 1 ELSE final_text
    /\ pcRecv' = IF kind \in {"definite", "last", "error"} THEN "done" ELSE "recv"
    /\ recvEnd' = IF kind = "error" THEN "error"
       ELSE IF kind \in {"definite", "last"} THEN "finished" ELSE recvEnd
    /\ asr_error_count' = IF kind = "error" THEN asr_error_count + 1 ELSE asr_error_count
    /\ UNCHANGED << now, speechStart, speechEnd, micNext, is_recording, audio_buffer,
                    asr_is_running, has_detected_voice, last_voice_time, pcAsr, pcSend,
                    connOpen, asrStopCalled, loudObserved, lastPacketTime, asr_finished,
                    asr_finished_count, sentAfterRecvEnd, chat_called >>
    /\ UNCHANGED otherThanAsr

\* _recv_result: asyncio.TimeoutError of wait_for(websocket.recv())
AsrRecvTimeout ==
    /\ pcAsr = "streaming"
    /\ pcRecv = "recv"
    /\ connOpen
    /\ now >= recvDeadline
    /\ recvDeadline' = now + RECV_TIMEOUT
    /\ wait_start_time' = IF ~asr_is_running /\ wait_start_time = -1 THEN now ELSE wait_start_time
    /\ pcRecv' = IF ~asr_is_running /\ wait_start_time # -1 /\ FinalWaitExpired(now - wait_start_time)
       THEN "done" ELSE "recv"
    /\ recvEnd' = IF ~asr_is_running /\ wait_start_time # -1 /\ FinalWaitExpired(now - wait_start_time)
       THEN "timeout" ELSE recvEnd
    /\ UNCHANGED << now, speechStart, speechEnd, micNext, is_recording, audio_buffer,
                    asr_is_running, has_detected_voice, last_voice_time, final_text,
                    pcAsr, pcSend, connOpen, serverFrames, asrStopCalled, loudObserved,
                    lastPacketTime, quietSince, asr_finished, asr_finished_count,
                    asr_error_count, sentAfterRecvEnd, chat_called >>
    /\ UNCHANGED otherThanAsr

\* _recv_result: websocket.recv() raised because the transport is closed
AsrRecvClosed ==
    /\ pcAsr = "streaming"
    /\ pcRecv = "recv"
    /\ ~connOpen
    /\ pcRecv' = "done"
    /\ recvEnd' = "closed"
    /\ UNCHANGED << now, speechStart, speechEnd, micNext, is_recording, audio_buffer,
                    asr_is_running, has_detected_voice, last_voice_time, wait_start_time,
                    final_text, pcAsr, pcSend, recvDeadline, connOpen, serverFrames,
                    asrStopCalled, loudObserved, lastPacketTime, quietSince,
                    asr_finished, asr_finished_count, asr_error_count, sentAfterRecvEnd,
                    chat_called >>
    /\ UNCHANGED otherThanAsr

\* the transport closes
AsrConnLost ==
    /\ pcAsr = "streaming"
    /\ connOpen
    /\ now <= EnvBy
    /\ connOpen' = FALSE
    /\ UNCHANGED << now, speechStart, speechEnd, micNext, is_recording, audio_buffer,
                    asr_is_running, has_detected_voice, last_voice_time, wait_start_time,
                    final_text, pcAsr, pcSend, pcRecv, recvDeadline, serverFrames,
                    asrStopCalled, loudObserved, lastPacketTime, quietSince,
                    asr_finished, asr_finished_count, asr_error_count, recvEnd,
                    sentAfterRecvEnd, chat_called >>
    /\ UNCHANGED otherThanAsr

\* _stream_asr: gather returned; asr_finished.emit(self.final_text) in the
\* finally clause, recorder.stop() in run()
AsrFinish ==
    /\ pcAsr = "streaming"
    /\ GatherReturned
    /\ pcAsr' = "finished"
    /\ asr_finished' = final_text
    /\ is_recording' = FALSE
    /\ asr_finished_count' = asr_finished_count + 1
    /\ chat_called' = (final_text # 0)
    /\ UNCHANGED << now, speechStart, speechEnd, micNext, audio_buffer, asr_is_running,
                    has_detected_voice, last_voice_time, wait_start_time, final_text,
                    pcSend, pcRecv, recvDeadline, connOpen, serverFrames, asrStopCalled,
                    loudObserved, lastPacketTime, quietSince, asr_error_count, recvEnd,
                    sentAfterRecvEnd >>
    /\ UNCHANGED otherThanAsr

\* a step of the session that takes no time is due
AsrUrgent ==
    \/ pcAsr = "connecting" /\ asr_is_running /\ is_recording /\ micNext <= now
    \/ pcAsr = "connecting" /\ now >= T0Max
    \/ pcAsr = "streaming" /\ pcSend \in {"buffered", "last"}
    \/ pcAsr = "streaming" /\ pcSend = "loop" /\ ~asr_is_running
    \/ pcAsr = "streaming" /\ pcSend = "loop" /\ is_recording /\ micNext <= now
    \/ pcAsr = "streaming" /\ pcRecv = "recv" /\ (~connOpen \/ now >= recvDeadline)
    \/ pcAsr = "streaming" /\ pcSend \in {"done", "failed"} /\ pcRecv = "done"


\* half a second passes; the recorder delivers one frame per tick and the
\* session's threads keep up with it
Tick ==
    /\ pcAsr \in {"connecting", "streaming"}
    /\ now < MaxTime
    /\ ~AsrUrgent
    /\ now' = now + 1
    /\ UNCHANGED << speechStart, speechEnd, micNext, is_recording, audio_buffer,
                    asr_is_running, has_detected_voice, last_voice_time, wait_start_time,
                    final_text, pcAsr, pcSend, pcRecv, recvDeadline, connOpen,
                    serverFrames, asrStopCalled, loudObserved, lastPacketTime,
                    quietSince, asr_finished, asr_finished_count, asr_error_count,
                    recvEnd, sentAfterRecvEnd, chat_called >>
    /\ UNCHANGED otherThanAsr

AsrNext ==
    \/ \E t0 \in 0..T0Max : \E t1 \in 0..t0 : AsrRun(t1, t0)
    \/ AsrRunMicFail
    \/ \E a \in {0, SILENCE_THRESHOLD, SILENCE_THRESHOLD + 1} : AsrBufferFrame(a)
    \/ AsrConnect
    \/ AsrConnectFail
    \/ AsrSendBuffered
    \/ AsrSendLoopExit
    \/ \E a \in {0, SILENCE_THRESHOLD, SILENCE_THRESHOLD + 1} : AsrSendLive(a)
    \/ AsrSendLast
    \/ AsrStop
    \/ \E kind \in FrameKinds : AsrRecvFrame(kind)
    \/ AsrRecvTimeout
    \/ AsrRecvClosed
    \/ AsrConnLost
    \/ AsrFinish
    \/ Tick

\* the session's own steps are taken when they are enabled: the threads and
\* tasks of the session are scheduled, and the clock advances
AsrFairness ==
    /\ WF_vars(\E a \in {0, SILENCE_THRESHOLD, SILENCE_THRESHOLD + 1} : AsrBufferFrame(a))
    /\ WF_vars(AsrConnect \/ AsrConnectFail)
    /\ WF_vars(AsrSendBuffered)
    /\ WF_vars(AsrSendLoopExit)
    /\ WF_vars(\E a \in {0, SILENCE_THRESHOLD, SILENCE_THRESHOLD + 1} : AsrSendLive(a))
    /\ WF_vars(AsrSendLast)
    /\ WF_vars(AsrRecvTimeout)
    /\ WF_vars(AsrRecvClosed)
    /\ WF_vars(AsrFinish)
    /\ WF_vars(Tick)

\* ------------------------------------------------------------------------
\* Properties of the recognition session
\* ------------------------------------------------------------------------
\* C8: as long as no frame with an amplitude above SILENCE_THRESHOLD has been
\* observed in the session and stop() has not been called, is_running stays
\* true and no last-packet frame is sent or about to be sent, however long
\* the initial silence lasts.
C8_InitialSilenceNeverEndsUpload ==
    (pcAsr # "idle" /\ loudObserved = -1 /\ ~asrStopCalled)
        => (asr_is_running /\ lastPacketTime = -1 /\ pcSend # "last")

\* the live loop is still uploading after an initial silence of twice
\* SILENCE_TIMEOUT
C8_Witness ==
    /\ pcAsr = "streaming" /\ pcSend = "loop" /\ connOpen
    /\ loudObserved = -1 /\ ~asrStopCalled /\ asr_is_running
    /\ micNext > now
    /\ now >= last_voice_time + 2 * SILENCE_TIMEOUT

\* C9: for a source that is loud until speechEnd and silent afterwards, and
\* without stop(), the last-packet frame is sent only after a loud frame was
\* observed, no earlier than SILENCE_TIMEOUT after the last loud frame was
\* observed and no earlier than speechEnd + SILENCE_TIMEOUT; and once a loud
\* frame was observed the last-packet frame is eventually sent, unless the
\* transport closes first.
C9_SilenceTermination ==
    /\ []((lastPacketTime >= 0 /\ ~asrStopCalled) =>
            /\ loudObserved >= 0
            /\ lastPacketTime >= loudObserved + SILENCE_TIMEOUT
            /\ lastPacketTime >= speechEnd + SILENCE_TIMEOUT)
    /\ ((pcAsr = "streaming" /\ has_detected_voice)
            ~> (lastPacketTime >= 0 \/ ~connOpen))

\* the last packet went out exactly SILENCE_TIMEOUT after the last loud frame
\* of a source whose speech had a positive length
C9_Witness ==
    /\ ~asrStopCalled /\ speechStart < speechEnd
    /\ loudObserved = speechEnd
    /\ lastPacketTime = loudObserved + SILENCE_TIMEOUT

\* C10: once the last packet was sent, the receive loop is left at most one
\* receive timeout plus FINAL_WAIT_TIMEOUT plus one receive timeout after the
\* last frame of the server (or after the last packet), the session ends, and
\* asr_finished carries the transcript accumulated so far.
C10_BoundedFinalWait ==
    /\ []((lastPacketTime >= 0 /\ pcRecv = "recv")
            => now <= quietSince + 2 * RECV_TIMEOUT + FINAL_WAIT_TIMEOUT)
    /\ [](pcAsr = "finished" => asr_finished = final_text)
    /\ ((lastPacketTime >= 0) ~> (pcAsr = "finished"))

\* a session that ended by the final wait, with a transcript received before
\* the server fell silent
C10_Witness ==
    /\ pcAsr = "finished" /\ connOpen /\ lastPacketTime >= 0
    /\ wait_start_time # -1 /\ now > wait_start_time + FINAL_WAIT_TIMEOUT
    /\ final_text = 1 /\ asr_finished = 1

\* C11: asr_finished is emitted at most once in a session, it has been emitted
\* exactly once when the session that reached _stream_asr is over (whatever
\* ended it), and never while the send or the receive task is still running.
C11_FinishedExactlyOnce ==
    /\ asr_finished_count <= 1
    /\ (asr_finished_count = 1) <=> (pcAsr = "finished")
    /\ asr_finished_count = 1 =>
          (pcSend \notin {"buffered", "loop", "last"} /\ pcRecv # "recv")

\* a session ended by stop(): last packet sent, receive loop left by the
\* final wait, one notification
C11_Witness ==
    /\ pcAsr = "finished" /\ asrStopCalled /\ lastPacketTime >= 0
    /\ recvEnd = "timeout" /\ asr_finished_count = 1

\* C12: once a frame of the server (error, definite utterance, last-packet
\* flag) has ended the receive loop, no further audio frame is sent.
C12_UploadStopsWhenReceiveEnds == ~sentAfterRecvEnd

\* C13: a session that emitted asr_error does not emit asr_finished with a
\* non-empty transcript, and no chat call is started from it.
C13_ErrorOrTranscript ==
    asr_error_count > 0 => ~(asr_finished > 0 \/ chat_called)

\* C14: a session whose transport closed while its send and receive tasks
\* were running ends with an asr_error notification.
C14_ClosedTransportIsReported ==
    (pcAsr = "finished" /\ ~connOpen) => asr_error_count > 0

\* ------------------------------------------------------------------------
\* Frame codec (ASRWorker._build_*, ASRWorker._parse_response,
\* TTSWorker._parse_tts_response, StreamingTTSWorker._parse_tts_response)
\* ------------------------------------------------------------------------
\* bounds: length of an id field and of an error message or audio payload
MaxIdLen == 1
MaxBodyLen == 2

\* data[a:b] of a bytes object (0-based, clamped to the buffer)
Slice(data, a, b) == SubSeq(data, a + 1, IF b < Len(data) THEN b ELSE Len(data))

\* struct.pack('>I', n) and struct.unpack('>I', b)[0]
PackU32(n) ==
    << (n \div 16777216) % 256, (n \div 65536) % 256, (n \div 256) % 256, n % 256 >>
UnpackU32(b) == b[1] * 16777216 + b[2] * 65536 + b[3] * 256 + b[4]

\* payloads: JSON objects, as the sequence of their (key, value) members, one
\* character each
Payloads == { <<>>, << <<97, 48>> >>, << <<97, 49>>, <<98, 48>> >> }

RECURSIVE Members(_)
Members(p) == IF p = <<>> THEN <<>> ELSE Head(p) \o Members(Tail(p))

RECURSIVE Pairs(_)
Pairs(b) == IF Len(b) < 2 THEN <<>> ELSE << <<b[1], b[2]>> >> \o Pairs(Tail(Tail(b)))

\* json.dumps(payload).encode('utf-8'): "{" members "}"
JsonDumps(p) == <<123>> \o Members(p) \o <<125>>

\* json.loads(b.decode('utf-8')); ok is false where it raises
JsonLoads(b) ==
    IF Len(b) >= 2 /\ b[1] = 123 /\ b[Len(b)] = 125 /\ (Len(b) - 2) % 2 = 0
    THEN [ok |-> TRUE, value |-> Pairs(SubSeq(b, 2, Len(b) - 1))]
    ELSE [ok |-> FALSE, value |-> <<>>]

\* gzip.compress: magic number, the data, the length of the data as trailer
GzipCompress(b) == <<31, 139>> \o b \o << Len(b) % 256 >>

\* gzip.decompress; ok is false where it raises
GzipDecompress(b) ==
    IF Len(b) >= 3 /\ b[1] = 31 /\ b[2] = 139 /\ b[Len(b)] = (Len(b) - 3) % 256
    THEN [ok |-> TRUE, data |-> SubSeq(b, 3, Len(b) - 1)]
    ELSE [ok |-> FALSE, data |-> <<>>]

\* _build_header
BuildHeader(message_type, message_type_flags, serialization, compression) ==
    << 17, message_type * 16 + message_type_flags, serialization * 16 + compression, 0 >>

\* _build_full_client_request
BuildFullClientRequest(payload, use_gzip) ==
    LET payload_bytes == IF use_gzip THEN GzipCompress(JsonDumps(payload))
                         ELSE JsonDumps(payload)
        compression == IF use_gzip THEN 1 ELSE 0
    IN  BuildHeader(1, 0, 1, compression) \o PackU32(Len(payload_bytes)) \o payload_bytes

\* results of the decoders, as records of one shape
\*   kind "none":  _parse_response returned None
\*   kind "error": a dict with "error": True
\*   kind "json":  the parsed payload of a full server response
\*   kind "tts":   the result dict of _parse_tts_response without "error"
NoResult ==
    [kind |-> "none", code |-> -1, message |-> <<>>, value |-> <<>>,
     event |-> -1, audio |-> <<>>, hasAudio |-> FALSE]
ErrorResult(code, message) == [NoResult EXCEPT !.kind = "error", !.code = code, !.message = message]
TtsResult(event, hasAudio, audio) ==
    [NoResult EXCEPT !.kind = "tts", !.event = event, !.hasAudio = hasAudio, !.audio = audio]

\* the message "Invalid error frame" of _parse_response
InvalidErrorFrame == <<73>>

\* ASRWorker._parse_response
ParseResponse(data) ==
    IF Len(data) < 4 THEN NoResult
    ELSE
    LET message_type == (data[2] \div 16) % 16
        message_type_flags == data[2] % 16
        serialization == (data[3] \div 16) % 16
        compression == data[3] % 16
        offset == IF message_type_flags \in {1, 3} THEN 8 ELSE 4
    IN  IF message_type = 15
        THEN IF Len(data) < offset + 8
             THEN ErrorResult(-1, InvalidErrorFrame)
             ELSE LET error_code == UnpackU32(Slice(data, offset, offset + 4))
                      error_size == UnpackU32(Slice(data, offset + 4, offset + 8))
                  IN  ErrorResult(error_code, Slice(data, offset + 8, offset + 8 + error_size))
        ELSE IF message_type # 9 THEN NoResult
        ELSE IF Len(data) < offset + 4 THEN NoResult
        ELSE
        LET payload_size == UnpackU32(Slice(data, offset, offset + 4))
            raw == Slice(data, offset + 4, offset + 4 + payload_size)
            payload_bytes == IF compression = 1 /\ GzipDecompress(raw).ok
                             THEN GzipDecompress(raw).data ELSE raw
        IN  IF Len(data) < offset + 4 + payload_size THEN NoResult
            ELSE IF serialization = 1 /\ JsonLoads(payload_bytes).ok
                 THEN [NoResult EXCEPT !.kind = "json", !.value = JsonLoads(payload_bytes).value]
                 ELSE NoResult

\* TTSWorker._parse_tts_response
ParseTtsResponseWorker(data) ==
    IF Len(data) < 4 THEN ErrorResult(-1, <<>>)
    ELSE
    LET message_type == (data[2] \div 16) % 16
        message_type_flags == data[2] % 16
        hasEvent == message_type_flags = 4
        event == IF hasEvent THEN UnpackU32(Slice(data, 4, 8)) ELSE -1
        offset == IF hasEvent THEN 8 ELSE 4
        \* the size-prefixed field at off: where the parser stands after it
        After(off) ==
            IF Len(data) >= off + 4
            THEN LET size == UnpackU32(Slice(data, off, off + 4))
                 IN  IF Len(data) >= off + 4 + size THEN off + 4 + size ELSE off + 4
            ELSE off
        audioOff == After(offset)
        audio_size == UnpackU32(Slice(data, audioOff, audioOff + 4))
    IN  IF message_type = 15
        THEN IF Len(data) < 8 THEN ErrorResult(-1, <<>>)
             ELSE ErrorResult(UnpackU32(Slice(data, 4, 8)), <<>>)
        ELSE IF hasEvent /\ Len(data) < 8 THEN ErrorResult(-1, <<>>)
        ELSE IF message_type = 11
        THEN IF Len(data) >= audioOff + 4 /\ Len(data) >= audioOff + 4 + audio_size
             THEN TtsResult(event, TRUE, Slice(data, audioOff + 4, audioOff + 4 + audio_size))
             ELSE TtsResult(event, FALSE, <<>>)
        ELSE TtsResult(event, FALSE, <<>>)

\* StreamingTTSWorker._parse_tts_response
ParseTtsResponseStreaming(data) ==
    IF Len(data) < 4 THEN ErrorResult(-1, <<>>)
    ELSE
    LET message_type == (data[2] \div 16) % 16
        message_type_flags == data[2] % 16
        hasEvent == message_type_flags = 4 /\ Len(data) >= 8
        event == IF hasEvent THEN UnpackU32(Slice(data, 4, 8)) ELSE -1
        offset == IF hasEvent THEN 8 ELSE 4
        audioOff == IF Len(data) >= offset + 4
                    THEN offset + 4 + UnpackU32(Slice(data, offset, offset + 4))
                    ELSE offset
        audio_size == UnpackU32(Slice(data, audioOff, audioOff + 4))
    IN  IF message_type = 15
        THEN IF Len(data) >= 8 THEN ErrorResult(UnpackU32(Slice(data, 4, 8)), <<>>)
             ELSE ErrorResult(-1, <<>>)
        ELSE IF message_type = 11
        THEN IF Len(data) >= audioOff + 4 /\ Len(data) >= audioOff + 4 + audio_size
             THEN TtsResult(event, TRUE, Slice(data, audioOff + 4, audioOff + 4 + audio_size))
             ELSE TtsResult(event, FALSE, <<>>)
        ELSE TtsResult(event, FALSE, <<>>)

\* byte strings of the bounded fields
Bodies == UNION { [1..n -> {101}] : n \in 0..MaxBodyLen }
Ids == UNION { [1..n -> {115}] : n \in 0..MaxIdLen }

\* the sequence number field that follows the header when the flags say so
SequenceField(flags) == IF flags \in {1, 3} THEN PackU32(1) ELSE <<>>

\* valid frames of the recognition server, in the layout _parse_response reads:
\* full server responses and error frames, with or without sequence number
AsrResponseFrames ==
    { BuildHeader(9, flags, 1, 0) \o SequenceField(flags)
        \o PackU32(Len(JsonDumps(p))) \o JsonDumps(p) :
            flags \in {0, 1, 3}, p \in Payloads }
    \cup
    { BuildHeader(9, flags, 1, 1) \o SequenceField(flags)
        \o PackU32(Len(GzipCompress(JsonDumps(p)))) \o GzipCompress(JsonDumps(p)) :
            flags \in {0, 3}, p \in Payloads }
    \cup
    { BuildHeader(15, flags, 1, 0) \o SequenceField(flags)
        \o PackU32(45) \o PackU32(Len(m)) \o m :
            flags \in {0, 1}, m \in Bodies }

\* valid frames of the synthesis server, in the layout _parse_tts_response
\* reads: event frames, audio frames and error frames
TtsResponseFrames ==
    { BuildHeader(9, 4, 1, 0) \o PackU32(ev) \o PackU32(Len(id)) \o id
        \o PackU32(Len(JsonDumps(<<>>))) \o JsonDumps(<<>>) :
            ev \in {50, 150, 152}, id \in Ids }
    \cup
    { BuildHeader(11, 4, 0, 0) \o PackU32(352) \o PackU32(Len(id)) \o id
        \o PackU32(Len(a)) \o a :
            id \in Ids, a \in Bodies \ {<<>>} }
    \cup
    { BuildHeader(15, 0, 1, 0) \o PackU32(45) \o PackU32(Len(JsonDumps(<<>>)))
        \o JsonDumps(<<>>) }

otherThanCodec == << schedVars, ttsVars, asrVars, smVars, textVars, chatVars, acVars, robotVars, recVars, upVars >>

CodecInit ==
    /\ cdPc = "idle"
    /\ cdOrigin = "none"
    /\ cdPayload = <<>>
    /\ cdFrame = <<>>
    /\ cdWhole = <<>>
    /\ cdCut = FALSE
    /\ cdParser = "none"
    /\ cdResult = [NoResult EXCEPT !.kind = "pending"]

\* the request encoder builds a frame from a payload
CodecEncodeRequest(p, use_gzip) ==
    /\ cdPc = "idle"
    /\ cdPc' = "frame"
    /\ cdOrigin' = "request"
    /\ cdPayload' = p
    /\ cdFrame' = BuildFullClientRequest(p, use_gzip)
    /\ cdWhole' = BuildFullClientRequest(p, use_gzip)
    /\ UNCHANGED << cdCut, cdParser, cdResult >>
    /\ UNCHANGED otherThanCodec

\* a frame of the recognition server arrives
CodecAsrFrame(f) ==
    /\ cdPc = "idle"
    /\ cdPc' = "frame"
    /\ cdOrigin' = "asr"
    /\ cdFrame' = f
    /\ cdWhole' = f
    /\ UNCHANGED << cdPayload, cdCut, cdParser, cdResult >>
    /\ UNCHANGED otherThanCodec

\* a frame of the synthesis server arrives
CodecTtsFrame(f) ==
    /\ cdPc = "idle"
    /\ cdPc' = "frame"
    /\ cdOrigin' = "tts"
    /\ cdFrame' = f
    /\ cdWhole' = f
    /\ UNCHANGED << cdPayload, cdCut, cdParser, cdResult >>
    /\ UNCHANGED otherThanCodec

\* only the first n bytes of the frame reach the decoder
CodecTruncate(n) ==
    /\ cdPc = "frame"
    /\ ~cdCut
    /\ n < Len(cdFrame)
    /\ cdFrame' = SubSeq(cdFrame, 1, n)
    /\ cdCut' = TRUE
    /\ UNCHANGED << cdPc, cdOrigin, cdPayload, cdWhole, cdParser, cdResult >>
    /\ UNCHANGED otherThanCodec

\* res = self._parse_response(response)
CodecParseResponse ==
    /\ cdPc = "frame"
    /\ cdOrigin \in {"request", "asr"}
    /\ cdPc' = "parsed"
    /\ cdParser' = "asr"
    /\ cdResult' = ParseResponse(cdFrame)
    /\ UNCHANGED << cdOrigin, cdPayload, cdFrame, cdWhole, cdCut >>
    /\ UNCHANGED otherThanCodec

\* result = self._parse_tts_response(response) of TTSWorker
CodecParseTtsWorker ==
    /\ cdPc = "frame"
    /\ cdOrigin = "tts"
    /\ cdPc' = "parsed"
    /\ cdParser' = "tts_worker"
    /\ cdResult' = ParseTtsResponseWorker(cdFrame)
    /\ UNCHANGED << cdOrigin, cdPayload, cdFrame, cdWhole, cdCut >>
    /\ UNCHANGED otherThanCodec

\* result = self._parse_tts_response(response) of StreamingTTSWorker
CodecParseTtsStreaming ==
    /\ cdPc = "frame"
    /\ cdOrigin = "tts"
    /\ cdPc' = "parsed"
    /\ cdParser' = "tts_streaming"
    /\ cdResult' = ParseTtsResponseStreaming(cdFrame)
    /\ UNCHANGED << cdOrigin, cdPayload, cdFrame, cdWhole, cdCut >>
    /\ UNCHANGED otherThanCodec

CodecNext ==
    \/ \E p \in Payloads : \E use_gzip \in BOOLEAN : CodecEncodeRequest(p, use_gzip)
    \/ \E f \in AsrResponseFrames : CodecAsrFrame(f)
    \/ \E f \in TtsResponseFrames : CodecTtsFrame(f)
    \/ \E n \in 0..(24 + MaxIdLen + MaxBodyLen) : CodecTruncate(n)
    \/ CodecParseResponse
    \/ CodecParseTtsWorker
    \/ CodecParseTtsStreaming

\* ------------------------------------------------------------------------
\* Frame codec: properties
\* ------------------------------------------------------------------------
\* C15: decoding with _parse_response the frame that
\* _build_full_client_request made of a payload, with or without gzip,
\* gives back the payload.
C15_RequestRoundTrip ==
    (cdPc = "parsed" /\ cdOrigin = "request" /\ ~cdCut)
        => (cdResult.kind = "json" /\ cdResult.value = cdPayload)

\* what counts as a failure of _parse_response: None, or the fixed
\* "Invalid error frame" result
IsParseFailure(r) ==
    \/ r.kind = "none"
    \/ r.kind = "error" /\ r.code = -1 /\ r.message = InvalidErrorFrame

\* C16: _parse_response of a proper prefix of a valid response frame of the
\* recognition server is a failure, never a result built from the fields
\* that happen to be in the buffer.
C16_TruncatedResponseIsFailure ==
    (cdPc = "parsed" /\ cdOrigin = "asr" /\ cdCut) => IsParseFailure(cdResult)

\* C17: _parse_tts_response of a proper prefix of a valid frame of the
\* synthesis server is an error result, never an event or audio.
C17_TruncatedTtsFrameIsError ==
    (cdPc = "parsed" /\ cdOrigin = "tts" /\ cdCut) => cdResult.kind = "error"

\* ------------------------------------------------------------------------
\* Segmentation and filtering (StreamingTTSWorker.add_text_chunk, finish_text)
\* ------------------------------------------------------------------------
\* bound: add_text_chunk calls of one reply
MaxTextCalls == 3

\* the reply "U4F60 U597D U3002 U4ECA U5929 U5929 U6C14 U4E0D U9519 UFF01"
ExampleReply ==
    <<"U4F60", "U597D", "U3002", "U4ECA", "U5929", "U5929", "U6C14", "U4E0D", "U9519", "UFF01">>

\* the chunks the chat stream delivers: the reply whole or cut in two, and
\* short pieces of letters, digits, emoji, blanks and delimiters
TextChunks ==
    { ExampleReply }
    \cup { SubSeq(ExampleReply, 1, n) : n \in {1, 3, 5} }
    \cup { SubSeq(ExampleReply, n + 1, Len(ExampleReply)) : n \in {1, 3, 5} }
    \cup { <<"o", "k">>, <<"o">>, <<"k">>, <<"1">>, <<"U1F60A">>, <<"LF">>, <<" ">>, <<"!">> }

otherThanText == << schedVars, ttsVars, asrVars, codecVars, smVars, chatVars, acVars, robotVars, recVars, upVars >>

TextInit ==
    /\ seg_text_buffer = <<>>
    /\ seg_chunk_id = 0
    /\ seg_tts_threads = << >>
    /\ seg_is_running = TRUE
    /\ seg_is_finished = FALSE
    /\ seg_calls = 0
    /\ seg_input = <<>>
    /\ seg_spans = <<>>
    /\ seg_units = <<>>
    /\ seg_final = <<>>

\* add_text_chunk(chunk) with the text after the last delimiter thrown away
\* instead of kept in text_buffer
SegAddTextChunkDropRest(chunk) ==
    /\ ~seg_is_finished
    /\ seg_calls < MaxTextCalls
    /\ seg_calls' = seg_calls + 1
    /\ IF ~seg_is_running
       THEN UNCHANGED << seg_text_buffer, seg_chunk_id, seg_tts_threads, seg_input,
                         seg_spans, seg_units >>
       ELSE LET r == Segment(seg_text_buffer \o chunk, seg_chunk_id, seg_tts_threads) IN
            /\ seg_text_buffer' = <<>>
            /\ seg_chunk_id' = r.cid
            /\ seg_tts_threads' = r.threads
            /\ seg_input' = seg_input \o chunk
            /\ seg_spans' = seg_spans \o r.spans
            /\ seg_units' = seg_units \o r.units
    /\ UNCHANGED << seg_is_running, seg_is_finished, seg_final >>
    /\ UNCHANGED otherThanText

\* add_text_chunk(chunk)
SegAddTextChunk(chunk) ==
    /\ ~seg_is_finished
    /\ seg_calls < MaxTextCalls
    /\ seg_calls' = seg_calls + 1
    /\ IF ~seg_is_running
       THEN UNCHANGED << seg_text_buffer, seg_chunk_id, seg_tts_threads, seg_input,
                         seg_spans, seg_units >>
       ELSE LET r == Segment(seg_text_buffer \o chunk, seg_chunk_id, seg_tts_threads) IN
            /\ seg_text_buffer' = r.buf
            /\ seg_chunk_id' = r.cid
            /\ seg_tts_threads' = r.threads
            /\ seg_input' = seg_input \o chunk
            /\ seg_spans' = seg_spans \o r.spans
            /\ seg_units' = seg_units \o r.units
    /\ UNCHANGED << seg_is_running, seg_is_finished, seg_final >>
    /\ UNCHANGED otherThanText

\* finish_text()
SegFinishText ==
    /\ ~seg_is_finished
    /\ seg_is_finished' = TRUE
    /\ IF Strip(seg_text_buffer) # <<>>
       THEN /\ seg_tts_threads' =
                  StartTtsSynthesis(seg_tts_threads, Strip(seg_text_buffer), seg_chunk_id)
            /\ seg_final' = Append(seg_final, Strip(seg_text_buffer))
            /\ seg_chunk_id' = seg_chunk_id + 1
            /\ seg_text_buffer' = <<>>
       ELSE UNCHANGED << seg_tts_threads, seg_final, seg_chunk_id, seg_text_buffer >>
    /\ UNCHANGED << seg_is_running, seg_calls, seg_input, seg_spans, seg_units >>
    /\ UNCHANGED otherThanText

\* stop(): is_running = False
SegStop ==
    /\ seg_is_running
    /\ seg_is_running' = FALSE
    /\ UNCHANGED << seg_text_buffer, seg_chunk_id, seg_tts_threads, seg_is_finished,
                    seg_calls, seg_input, seg_spans, seg_units, seg_final >>
    /\ UNCHANGED otherThanText

TextNext ==
    \/ \E chunk \in TextChunks : SegAddTextChunk(chunk)
    \/ SegFinishText
    \/ SegStop

C25_SessionIffTwoValidChars ==
    LET units == seg_units \o seg_final
        Letters == {"a", "o", "k"}
        Digits == {"1"}
        Ideographs == {"U4F60", "U597D", "U4ECA", "U5929", "U6C14", "U4E0D", "U9519"}
        Count(u) == Cardinality({ j \in 1..Len(u) : u[j] \in Letters \cup Digits \cup Ideographs })
    IN
    /\ Len(units) = seg_chunk_id
    /\ DOMAIN seg_tts_threads \subseteq 0..(seg_chunk_id - 1)
    /\ \A i \in 1..Len(units) :
          /\ ((i - 1) \in DOMAIN seg_tts_threads) <=> (Count(units[i]) >= 2)
          /\ units[i] = <<"U1F60A">> => (i - 1) \notin DOMAIN seg_tts_threads
          /\ units[i] = <<"o", "k">> => (i - 1) \in DOMAIN seg_tts_threads

\* the unit "U1F60A" opened no session, the unit "ok" after it opened one
C25_Witness ==
    /\ seg_units = << <<"U1F60A">> >>
    /\ seg_final = << <<"o", "k">> >>
    /\ DOMAIN seg_tts_threads = {1}

\* C38: segmentation does not depend on the chunking: after finish_text of
\* a worker that was not stopped, the units dispatched, their chunk ids and
\* the sessions opened are those of one add_text_chunk call with the whole
\* text followed by finish_text.
C38_ChunkingIndependent ==
    (seg_is_finished /\ seg_is_running) =>
        LET whole == Segment(seg_input, 0, << >>)
            rest  == Strip(whole.buf)
        IN /\ seg_units \o seg_final
                 = whole.units \o (IF rest # <<>> THEN <<rest>> ELSE <<>>)
           /\ seg_chunk_id = whole.cid + (IF rest # <<>> THEN 1 ELSE 0)
           /\ seg_tts_threads
                 = (IF rest # <<>> THEN StartTtsSynthesis(whole.threads, rest, whole.cid)
                    ELSE whole.threads)

\* the text "ok!" arrived in three chunks and gave one unit with chunk id 0
C38_Witness ==
    /\ seg_is_finished /\ seg_is_running
    /\ seg_calls = 3
    /\ seg_input = <<"o", "k", "!">>
    /\ seg_units = << <<"o", "k", "!">> >>
    /\ DOMAIN seg_tts_threads = {0}

\* ------------------------------------------------------------------------
\* Chat call (ChatWorker)
\* ------------------------------------------------------------------------
\* bound: lines of the streamed response
MaxLines == 3

otherThanChat == << schedVars, ttsVars, asrVars, codecVars, smVars, textVars, acVars, robotVars, recVars, upVars >>

ChatInit ==
    /\ chat_is_running = TRUE
    /\ chatPc = "idle"
    /\ full_reply = 0
    /\ chatLines = 0
    /\ chatResult = 0
    /\ chatStopReturned = FALSE
    /\ chatEmitted = {}
    /\ chatAfterStop = {}

\* a signal is emitted
ChatEmit(signal) ==
    /\ chatEmitted' = chatEmitted \cup {signal}
    /\ chatAfterStop' = IF chatStopReturned THEN chatAfterStop \cup {signal}
                        ELSE chatAfterStop

\* run() up to the call of _call_chat_api_stream, and requests.post in it;
\* a failed request returns None
ChatRun(posted) ==
    /\ chatPc = "idle"
    /\ chat_is_running' = TRUE
    /\ ChatEmit("chat_thinking")
    /\ chatPc' = IF posted THEN "iter" ELSE "returned"
    /\ UNCHANGED << full_reply, chatLines, chatResult, chatStopReturned >>
    /\ UNCHANGED otherThanChat

\* for line in response.iter_lines(): the next line, the end of the stream or
\* an exception of the transport; then the test of is_running
ChatIter(next) ==
    /\ chatPc = "iter"
    /\ next = "line" => chatLines < MaxLines
    /\ IF next = "raises"
       THEN chatPc' = "returned" /\ chatResult' = 0 /\ UNCHANGED chatLines
       ELSE IF next = "end"
       THEN chatPc' = "returned" /\ chatResult' = full_reply /\ UNCHANGED chatLines
       ELSE IF ~chat_is_running
       THEN chatPc' = "returned" /\ chatResult' = full_reply /\ chatLines' = chatLines + 1
       ELSE chatPc' = "line" /\ chatLines' = chatLines + 1 /\ UNCHANGED chatResult
    /\ UNCHANGED << chat_is_running, full_reply, chatStopReturned, chatEmitted,
                    chatAfterStop >>
    /\ UNCHANGED otherThanChat

\* the body of the loop for one line: a content chunk, [DONE], or a line that
\* is skipped (blank, comment, error, no content, not JSON)
ChatLine(kind) ==
    /\ chatPc = "line"
    /\ IF kind = "content"
       THEN /\ full_reply' = full_reply + 1
            /\ ChatEmit("chat_chunk")
            /\ chatPc' = "iter"
            /\ UNCHANGED chatResult
       ELSE IF kind = "done"
       THEN /\ chatPc' = "returned"
            /\ chatResult' = full_reply
            /\ UNCHANGED << full_reply, chatEmitted, chatAfterStop >>
       ELSE /\ chatPc' = "iter"
            /\ UNCHANGED << full_reply, chatResult, chatEmitted, chatAfterStop >>
    /\ UNCHANGED << chat_is_running, chatLines, chatStopReturned >>
    /\ UNCHANGED otherThanChat

\* run() after the call: chat_reply for a non-empty reply, else chat_error
\* while is_running
ChatFinish ==
    /\ chatPc = "returned"
    /\ chatPc' = "done"
    /\ IF chatResult > 0 THEN ChatEmit("chat_reply")
       ELSE IF chat_is_running THEN ChatEmit("chat_error")
       ELSE UNCHANGED << chatEmitted, chatAfterStop >>
    /\ UNCHANGED << chat_is_running, full_reply, chatLines, chatResult, chatStopReturned >>
    /\ UNCHANGED otherThanChat

\* stop(): is_running = False
ChatStop ==
    /\ ~chatStopReturned
    /\ chatPc # "done"
    /\ chat_is_running' = FALSE
    /\ chatStopReturned' = TRUE
    /\ UNCHANGED << chatPc, full_reply, chatLines, chatResult, chatEmitted, chatAfterStop >>
    /\ UNCHANGED otherThanChat

ChatNext ==
    \/ \E posted \in BOOLEAN : ChatRun(posted)
    \/ \E next \in {"line", "end", "raises"} : ChatIter(next)
    \/ \E kind \in {"content", "done", "skip"} : ChatLine(kind)
    \/ ChatFinish
    \/ ChatStop

\* C26: once ChatWorker.stop() has returned, the call emits neither chat_chunk
\* nor chat_reply.
C26_NoResultAfterStop ==
    chatAfterStop \cap {"chat_chunk", "chat_reply"} = {}

\* ------------------------------------------------------------------------
\* Recognition call of the robot (ASRClient.recognize_stream)
\* ------------------------------------------------------------------------
\* bounds: chunks of the audio generator, frames of the server, and the
\* receive timeouts counted after the last packet (6 timeouts are 3 s)
MaxClientAudio == 2
MaxClientFrames == 2
MaxQuietPolls == 6

otherThanAc == << schedVars, ttsVars, asrVars, codecVars, smVars, textVars, chatVars, robotVars, recVars, upVars >>

AcInit ==
    /\ acPc = "idle"
    /\ acSendPc = "idle"
    /\ acRecvPc = "idle"
    /\ acAudioLeft = 0
    /\ acServerLeft = 0
    /\ acConnOpen = FALSE
    /\ ac_final_text = 0
    /\ acReturned = -1
    /\ acLastSent = FALSE
    /\ acQuiet = 0
    /\ acOnError = FALSE

\* recognize_stream up to create_task: connect and send the full client
\* request; when that raises, the except clause reports and '' is returned
AcConnect(ok, audio, frames) ==
    /\ acPc = "idle"
    /\ acAudioLeft' = audio
    /\ acServerLeft' = frames
    /\ IF ok
       THEN /\ acPc' = "gather"
            /\ acSendPc' = "send"
            /\ acRecvPc' = "recv"
            /\ acConnOpen' = TRUE
            /\ UNCHANGED << acReturned, acOnError >>
       ELSE /\ acPc' = "returned"
            /\ acReturned' = 0
            /\ acOnError' = TRUE
            /\ UNCHANGED << acSendPc, acRecvPc, acConnOpen >>
    /\ UNCHANGED << ac_final_text, acLastSent, acQuiet >>
    /\ UNCHANGED otherThanAc

\* _send_audio: one chunk of the generator, or the end frame after the last
\* chunk; a send on a closed transport raises and the except clause ends
\* _send_audio
AcSend ==
    /\ acSendPc = "send"
    /\ IF ~acConnOpen
       THEN acSendPc' = "done" /\ UNCHANGED << acAudioLeft, acLastSent, acQuiet >>
       ELSE IF acAudioLeft > 0
       THEN acAudioLeft' = acAudioLeft - 1 /\ UNCHANGED << acSendPc, acLastSent, acQuiet >>
       ELSE /\ acSendPc' = "done"
            /\ acLastSent' = TRUE
            /\ acQuiet' = 0
            /\ UNCHANGED acAudioLeft
    /\ UNCHANGED << acPc, acRecvPc, acServerLeft, acConnOpen, ac_final_text, acReturned,
                    acOnError >>
    /\ UNCHANGED otherThanAc

\* _recv_result, one iteration: wait_for(recv, 0.5) times out (continue), the
\* transport closes (recv raises, the except clause ends _recv_result), or a
\* frame arrives: one _parse_response rejects, an error frame, a partial
\* result, or a final one (definite utterance or last-packet flag)
AcRecv(r) ==
    /\ acRecvPc = "recv"
    /\ r \in {"unparsed", "error", "partial", "final"} => acServerLeft > 0
    /\ acServerLeft' = IF r \in {"timeout", "closed"} THEN acServerLeft ELSE acServerLeft - 1
    /\ acConnOpen' = (acConnOpen /\ r # "closed")
    /\ r = "timeout" => acConnOpen
    /\ acRecvPc' = IF r \in {"closed", "error", "final"} THEN "done" ELSE "recv"
    /\ ac_final_text' = IF r \in {"partial", "final"} THEN ac_final_text + 1 ELSE ac_final_text
    /\ acOnError' = (acOnError \/ r = "error")
    /\ acQuiet' = IF r # "timeout" THEN 0
                  ELSE IF acLastSent /\ acQuiet < MaxQuietPolls THEN acQuiet + 1
                  ELSE acQuiet
    /\ UNCHANGED << acPc, acSendPc, acAudioLeft, acReturned, acLastSent >>
    /\ UNCHANGED otherThanAc

\* gather returned: final_text = results[1], return final_text
AcReturn ==
    /\ acPc = "gather"
    /\ acSendPc = "done" /\ acRecvPc = "done"
    /\ acPc' = "returned"
    /\ acReturned' = ac_final_text
    /\ acConnOpen' = FALSE
    /\ UNCHANGED << acSendPc, acRecvPc, acAudioLeft, acServerLeft, ac_final_text,
                    acLastSent, acQuiet, acOnError >>
    /\ UNCHANGED otherThanAc

AcNext ==
    \/ \E ok \in BOOLEAN, audio \in 0..MaxClientAudio, frames \in 0..MaxClientFrames :
          AcConnect(ok, audio, frames)
    \/ AcSend
    \/ \E r \in {"timeout", "closed", "unparsed", "error", "partial", "final"} : AcRecv(r)
    \/ AcReturn

\* C28: once the last-packet frame was sent, the receive loop of
\* recognize_stream does not go on through MaxQuietPolls receive timeouts in a
\* row (3 s without a frame, the transport open): it ends within a bounded
\* wait and recognize_stream returns.
C28_ReceiveEndsAfterLastPacket ==
    (acLastSent /\ acRecvPc = "recv") => acQuiet < MaxQuietPolls

\* ------------------------------------------------------------------------
\* State machine (RobotStateMachine)
\* ------------------------------------------------------------------------
\* bound: events waiting in the queue
MaxQueue == 1

\* RobotState, RobotEvent
RobotState ==
    {"IDLE", "LISTENING", "RECOGNIZING", "THINKING", "SPEAKING", "ERROR", "SHUTDOWN"}
RobotEvent ==
    {"WAKE_WORD_DETECTED", "BUTTON_PRESSED",
     "RECORDING_STARTED", "SILENCE_DETECTED", "RECORDING_TIMEOUT", "RECORDING_STOPPED",
     "ASR_PARTIAL_RESULT", "ASR_FINAL_RESULT", "ASR_ERROR",
     "CHAT_CHUNK_RECEIVED", "CHAT_COMPLETED", "CHAT_ERROR",
     "TTS_STARTED", "TTS_COMPLETED", "TTS_INTERRUPTED", "TTS_ERROR",
     "INTERRUPT_REQUESTED", "SHUTDOWN_REQUESTED", "ERROR_OCCURRED"}

\* the row of SPEAKING in TRANSITIONS
TRANSITIONS_SPEAKING_TtsErrorToIdle ==
    ("TTS_COMPLETED" :> "IDLE") @@ ("TTS_INTERRUPTED" :> "IDLE")
        @@ ("TTS_ERROR" :> "IDLE") @@ ("INTERRUPT_REQUESTED" :> "IDLE")
        @@ ("WAKE_WORD_DETECTED" :> "LISTENING")
TRANSITIONS_SPEAKING_NoInterrupt ==
    ("TTS_COMPLETED" :> "IDLE") @@ ("TTS_INTERRUPTED" :> "IDLE")
        @@ ("TTS_ERROR" :> "ERROR")
        @@ ("WAKE_WORD_DETECTED" :> "LISTENING")
TRANSITIONS_SPEAKING ==
    ("TTS_COMPLETED" :> "IDLE") @@ ("TTS_INTERRUPTED" :> "IDLE")
        @@ ("TTS_ERROR" :> "ERROR") @@ ("INTERRUPT_REQUESTED" :> "IDLE")
        @@ ("WAKE_WORD_DETECTED" :> "LISTENING")

TRANSITIONS ==
    ("IDLE" :>
        (("WAKE_WORD_DETECTED" :> "LISTENING") @@ ("BUTTON_PRESSED" :> "LISTENING")
         @@ ("SHUTDOWN_REQUESTED" :> "SHUTDOWN")))
    @@ ("LISTENING" :>
        (("SILENCE_DETECTED" :> "RECOGNIZING") @@ ("RECORDING_TIMEOUT" :> "RECOGNIZING")
         @@ ("RECORDING_STOPPED" :> "RECOGNIZING") @@ ("INTERRUPT_REQUESTED" :> "IDLE")
         @@ ("ASR_ERROR" :> "ERROR")))
    @@ ("RECOGNIZING" :>
        (("ASR_FINAL_RESULT" :> "THINKING") @@ ("ASR_ERROR" :> "ERROR")
         @@ ("INTERRUPT_REQUESTED" :> "IDLE")))
    @@ ("THINKING" :>
        (("CHAT_CHUNK_RECEIVED" :> "SPEAKING") @@ ("CHAT_COMPLETED" :> "SPEAKING")
         @@ ("CHAT_ERROR" :> "ERROR") @@ ("INTERRUPT_REQUESTED" :> "IDLE")))
    @@ ("SPEAKING" :> TRANSITIONS_SPEAKING)
    @@ ("ERROR" :>
        (("WAKE_WORD_DETECTED" :> "LISTENING") @@ ("BUTTON_PRESSED" :> "LISTENING")
         @@ ("SHUTDOWN_REQUESTED" :> "SHUTDOWN")))

\* transitions = self.TRANSITIONS.get(current_state, {})
TransitionsOf(current_state) ==
    IF current_state \in DOMAIN TRANSITIONS THEN TRANSITIONS[current_state] ELSE <<>>

\* if event not in transitions: ... return False
NotInTransitionsNever(event, current_state) == FALSE
NotInTransitions(event, current_state) == event \notin DOMAIN TransitionsOf(current_state)

\* new_state = transitions[event] (the state itself where there is no entry)
NewState(event, current_state) ==
    IF event \in DOMAIN TransitionsOf(current_state)
    THEN TransitionsOf(current_state)[event]
    ELSE current_state

\* the states in which a component is at work
ActiveStates == {"LISTENING", "RECOGNIZING", "THINKING", "SPEAKING"}

\* states and events for which the model registers callbacks
CallbackStates == {"LISTENING", "ERROR"}
CallbackEvents == {"INTERRUPT_REQUESTED"}

otherThanSm == << schedVars, ttsVars, asrVars, codecVars, textVars, chatVars, acVars, robotVars, recVars, upVars >>

SmInit ==
    /\ sm_state = "IDLE"
    /\ sm_running = FALSE
    /\ sm_queue_created = FALSE
    /\ sm_event_queue = <<>>
    /\ sm_state_callbacks = {}
    /\ sm_event_callbacks = {}
    /\ smLoop = "idle"
    /\ smLastFrom = "IDLE"
    /\ smLastEvent = "none"
    /\ smReturn = "none"
    /\ smCalled = {}
    /\ smRaised = {}

\* register_state_callback
SmRegisterStateCallback(state) ==
    /\ state \in CallbackStates
    /\ state \notin sm_state_callbacks
    /\ sm_state_callbacks' = sm_state_callbacks \cup {state}
    /\ UNCHANGED << sm_state, sm_running, sm_queue_created, sm_event_queue,
                    sm_event_callbacks, smLoop, smLastFrom, smLastEvent, smReturn,
                    smCalled, smRaised >>
    /\ UNCHANGED otherThanSm

\* register_event_callback
SmRegisterEventCallback(event) ==
    /\ event \in CallbackEvents
    /\ event \notin sm_event_callbacks
    /\ sm_event_callbacks' = sm_event_callbacks \cup {event}
    /\ UNCHANGED << sm_state, sm_running, sm_queue_created, sm_event_queue,
                    sm_state_callbacks, smLoop, smLastFrom, smLastEvent, smReturn,
                    smCalled, smRaised >>
    /\ UNCHANGED otherThanSm

\* start(): _running = True, the queue is created, the event loop starts
SmStart ==
    /\ smLoop = "idle"
    /\ smLoop' = "running"
    /\ sm_running' = TRUE
    /\ sm_queue_created' = TRUE
    /\ sm_event_queue' = <<>>
    /\ UNCHANGED << sm_state, sm_state_callbacks, sm_event_callbacks, smLastFrom,
                    smLastEvent, smReturn, smCalled, smRaised >>
    /\ UNCHANGED otherThanSm

\* emit_event / emit_event_sync: the event is put into the queue, if there is one
SmEmitEvent(event) ==
    /\ sm_queue_created
    /\ Len(sm_event_queue) < MaxQueue
    /\ sm_event_queue' = Append(sm_event_queue, event)
    /\ UNCHANGED << sm_state, sm_running, sm_queue_created, sm_state_callbacks,
                    sm_event_callbacks, smLoop, smLastFrom, smLastEvent, smReturn,
                    smCalled, smRaised >>
    /\ UNCHANGED otherThanSm

\* one iteration of a loop that is 'while self._running' only: the state is
\* not tested before an event is taken
SmProcessInAnyState(evRaises, stRaises) ==
    LET event == Head(sm_event_queue)
        dropped == NotInTransitions(event, sm_state)
        new_state == NewState(event, sm_state)
        called == IF dropped THEN {}
                  ELSE (IF event \in sm_event_callbacks THEN {"event"} ELSE {})
                       \cup (IF new_state \in sm_state_callbacks THEN {"state"} ELSE {})
        raised == (IF evRaises THEN {"event"} ELSE {}) \cup (IF stRaises THEN {"state"} ELSE {})
    IN
    /\ smLoop = "running"
    /\ sm_running
    /\ sm_event_queue # <<>>
    /\ raised \subseteq called
    /\ sm_event_queue' = Tail(sm_event_queue)
    /\ sm_state' = IF dropped THEN sm_state ELSE new_state
    /\ smReturn' = IF dropped THEN "False" ELSE "True"
    /\ smCalled' = called
    /\ smRaised' = raised
    /\ smLastFrom' = sm_state
    /\ smLastEvent' = event
    /\ UNCHANGED << sm_running, sm_queue_created, sm_state_callbacks, sm_event_callbacks,
                    smLoop >>
    /\ UNCHANGED otherThanSm

\* one iteration of _event_loop that gets an event: _transition(event, data);
\* a callback that is called may raise, which _transition logs
SmProcess(evRaises, stRaises) ==
    LET event == Head(sm_event_queue)
        dropped == NotInTransitions(event, sm_state)
        new_state == NewState(event, sm_state)
        called == IF dropped THEN {}
                  ELSE (IF event \in sm_event_callbacks THEN {"event"} ELSE {})
                       \cup (IF new_state \in sm_state_callbacks THEN {"state"} ELSE {})
        raised == (IF evRaises THEN {"event"} ELSE {}) \cup (IF stRaises THEN {"state"} ELSE {})
    IN
    /\ smLoop = "running"
    /\ sm_running /\ sm_state # "SHUTDOWN"
    /\ sm_event_queue # <<>>
    /\ raised \subseteq called
    /\ sm_event_queue' = Tail(sm_event_queue)
    /\ sm_state' = IF dropped THEN sm_state ELSE new_state
    /\ smReturn' = IF dropped THEN "False" ELSE "True"
    /\ smCalled' = called
    /\ smRaised' = raised
    /\ smLastFrom' = sm_state
    /\ smLastEvent' = event
    /\ UNCHANGED << sm_running, sm_queue_created, sm_state_callbacks, sm_event_callbacks,
                    smLoop >>
    /\ UNCHANGED otherThanSm

\* one iteration of _event_loop in which the processing of the event raises
\* before the state is assigned: the loop logs and emits ERROR_OCCURRED
SmProcessRaises ==
    /\ smLoop = "running"
    /\ sm_running /\ sm_state # "SHUTDOWN"
    /\ sm_event_queue # <<>>
    /\ sm_event_queue' = Append(Tail(sm_event_queue), "ERROR_OCCURRED")
    /\ smReturn' = "none"
    /\ smCalled' = {}
    /\ smRaised' = {"loop"}
    /\ smLastFrom' = sm_state
    /\ smLastEvent' = Head(sm_event_queue)
    /\ UNCHANGED << sm_state, sm_running, sm_queue_created, sm_state_callbacks,
                    sm_event_callbacks, smLoop >>
    /\ UNCHANGED otherThanSm

\* while self._running and self._state != RobotState.SHUTDOWN fails
SmLoopExit ==
    /\ smLoop = "running"
    /\ ~sm_running \/ sm_state = "SHUTDOWN"
    /\ smLoop' = "ended"
    /\ UNCHANGED << sm_state, sm_running, sm_queue_created, sm_event_queue,
                    sm_state_callbacks, sm_event_callbacks, smLastFrom, smLastEvent,
                    smReturn, smCalled, smRaised >>
    /\ UNCHANGED otherThanSm

\* stop(): _running = False, SHUTDOWN_REQUESTED is emitted
SmStop ==
    /\ sm_running
    /\ Len(sm_event_queue) < MaxQueue
    /\ sm_running' = FALSE
    /\ sm_event_queue' = IF sm_queue_created
                         THEN Append(sm_event_queue, "SHUTDOWN_REQUESTED")
                         ELSE sm_event_queue
    /\ UNCHANGED << sm_state, sm_queue_created, sm_state_callbacks, sm_event_callbacks,
                    smLoop, smLastFrom, smLastEvent, smReturn, smCalled, smRaised >>
    /\ UNCHANGED otherThanSm

SmNext ==
    \/ \E state \in RobotState : SmRegisterStateCallback(state)
    \/ \E event \in RobotEvent : SmRegisterEventCallback(event)
    \/ SmStart
    \/ \E event \in RobotEvent : SmEmitEvent(event)
    \/ \E evRaises \in BOOLEAN : \E stRaises \in BOOLEAN : SmProcess(evRaises, stRaises)
    \/ SmProcessRaises
    \/ SmLoopExit
    \/ SmStop

\* ------------------------------------------------------------------------
\* State machine: properties
\* ------------------------------------------------------------------------
\* a step in which _transition ran to its end: the only step that shortens
\* the queue
TransitionStep == Len(sm_event_queue') < Len(sm_event_queue)

\* C18: processing an event that has no entry in TRANSITIONS for the current
\* state leaves the state as it is, calls no callback, returns False, and
\* takes the event out of the queue.
C18_UndefinedEventIsDropped ==
    [][(TransitionStep
          /\ Head(sm_event_queue) \notin DOMAIN TransitionsOf(sm_state))
        => /\ sm_state' = sm_state
           /\ smCalled' = {}
           /\ smReturn' = "False"
           /\ sm_event_queue' = Tail(sm_event_queue)]_vars

\* BUTTON_PRESSED was dropped in Speaking, with callbacks registered
C18_Witness ==
    /\ smLastFrom = "SPEAKING" /\ smLastEvent = "BUTTON_PRESSED"
    /\ smReturn = "False" /\ sm_state = "SPEAKING"
    /\ sm_state_callbacks = CallbackStates /\ sm_event_callbacks = CallbackEvents

\* C19: processing INTERRUPT_REQUESTED in Listening, Recognizing, Thinking or
\* Speaking moves the machine to Idle; in any other state it is dropped.
C19_InterruptReturnsToIdle ==
    [][(TransitionStep /\ Head(sm_event_queue) = "INTERRUPT_REQUESTED")
        => IF sm_state \in ActiveStates
           THEN sm_state' = "IDLE" /\ smReturn' = "True"
           ELSE sm_state' = sm_state /\ smReturn' = "False"]_vars

\* the interrupt was processed in Speaking
C19_Witness ==
    /\ smLastFrom = "SPEAKING" /\ smLastEvent = "INTERRUPT_REQUESTED"
    /\ smReturn = "True" /\ sm_state = "IDLE"

\* C20: an unhandled error is converted into the Error state: processing
\* ERROR_OCCURRED in an active state enters Error, and after a callback raised
\* in a transition that ends in an active state the machine is told so
\* (ERROR_OCCURRED is in the queue).
C20_ErrorsLeadToErrorState ==
    [][TransitionStep
        => /\ (Head(sm_event_queue) = "ERROR_OCCURRED" /\ sm_state \in ActiveStates)
                => sm_state' = "ERROR"
           /\ (smRaised' # {} /\ sm_state' \in ActiveStates)
                => \E i \in 1..Len(sm_event_queue') :
                        sm_event_queue'[i] = "ERROR_OCCURRED"]_vars

C39_ShutdownIsTerminal ==
    [][sm_state = "SHUTDOWN"
        => /\ DOMAIN TransitionsOf("SHUTDOWN") = {}
           /\ sm_state' = "SHUTDOWN"
           /\ ~TransitionStep]_vars

\* the loop has ended in Shutdown and an event emitted afterwards stays queued
C39_Witness ==
    /\ sm_state = "SHUTDOWN"
    /\ smLoop = "ended"
    /\ smLastEvent = "SHUTDOWN_REQUESTED"
    /\ sm_event_queue = <<"WAKE_WORD_DETECTED">>

\* ------------------------------------------------------------------------
\* The running robot (VoiceAssistantRobot on RobotStateMachine)
\* ------------------------------------------------------------------------
\* bound: events in the queue that come from outside the state callbacks
MaxRobotQueue == 2

otherThanRobot ==
    << schedVars, ttsVars, asrVars, codecVars, smVars, textVars, chatVars, acVars, recVars, upVars >>

\* after start(): _state is IDLE, the queue exists and is empty
RobotInit ==
    /\ rb_state = "IDLE"
    /\ rb_event_queue = <<>>
    /\ rb_callback = "none"
    /\ rbChange = "none"
    /\ rbInterrupted = FALSE
    /\ rbFinishedAfterInterrupt = FALSE

\* emit_event from outside the callbacks: the wake detector, a button, the
\* signal handler, an interrupt request
RobotEmitEvent(event) ==
    /\ rb_state # "SHUTDOWN"
    /\ Len(rb_event_queue) < MaxRobotQueue
    /\ rb_event_queue' = Append(rb_event_queue, event)
    /\ rbInterrupted' = (rbInterrupted
                            \/ (event = "INTERRUPT_REQUESTED" /\ rb_callback \in ActiveStates))
    /\ UNCHANGED << rb_state, rb_callback, rbChange, rbFinishedAfterInterrupt >>
    /\ UNCHANGED otherThanRobot

\* _event_loop takes an event and _transition runs up to the await of the
\* state callback (every state but SHUTDOWN has one, _register_callbacks)
RobotTransition ==
    /\ rb_callback = "none"
    /\ rb_state # "SHUTDOWN"
    /\ rb_event_queue # <<>>
    /\ rb_event_queue' = Tail(rb_event_queue)
    /\ IF NotInTransitions(Head(rb_event_queue), rb_state)
       THEN UNCHANGED << rb_state, rb_callback, rbChange >>
       ELSE /\ rb_state' = NewState(Head(rb_event_queue), rb_state)
            /\ rb_callback' = IF rb_state' = "SHUTDOWN" THEN "none" ELSE rb_state'
            /\ rbChange' = "table"
    /\ rbInterrupted' = FALSE
    /\ UNCHANGED rbFinishedAfterInterrupt
    /\ UNCHANGED otherThanRobot

\* the awaited state callback comes to its end: _on_enter_listening,
\* _on_enter_recognizing, _on_enter_thinking and _on_enter_speaking emit the
\* event of their component (done: it delivered, failed: it did not) unless
\* they raise, _on_enter_idle emits nothing, _on_enter_error sets _state
RobotCallbackEnd(outcome) ==
    LET emitted ==
            IF outcome = "raised" THEN <<>>
            ELSE IF rb_callback = "LISTENING"
            THEN << IF outcome = "done" THEN "SILENCE_DETECTED" ELSE "ASR_ERROR" >>
            ELSE IF rb_callback = "RECOGNIZING"
            THEN << IF outcome = "done" THEN "ASR_FINAL_RESULT" ELSE "ASR_ERROR" >>
            ELSE IF rb_callback = "THINKING"
            THEN << IF outcome = "done" THEN "CHAT_COMPLETED" ELSE "CHAT_ERROR" >>
            ELSE IF rb_callback = "SPEAKING"
            THEN << IF outcome = "done" THEN "TTS_COMPLETED" ELSE "TTS_ERROR" >>
            ELSE <<>>
    IN
    /\ rb_callback # "none"
    /\ outcome = "failed" => rb_callback \in ActiveStates
    /\ outcome = "raised" => rb_callback \in {"LISTENING", "THINKING"}
    /\ rb_event_queue' = rb_event_queue \o emitted
    /\ rb_callback' = "none"
    /\ IF rb_callback = "ERROR"
       THEN rb_state' = "IDLE" /\ rbChange' = "direct"
       ELSE UNCHANGED << rb_state, rbChange >>
    /\ rbFinishedAfterInterrupt' =
          (rbFinishedAfterInterrupt \/ (rbInterrupted /\ outcome = "done"))
    /\ rbInterrupted' = FALSE
    /\ UNCHANGED otherThanRobot

RobotNext ==
    \/ \E event \in {"WAKE_WORD_DETECTED", "BUTTON_PRESSED", "INTERRUPT_REQUESTED",
                      "SHUTDOWN_REQUESTED"} : RobotEmitEvent(event)
    \/ RobotTransition
    \/ \E outcome \in {"done", "failed", "raised"} : RobotCallbackEnd(outcome)

\* C29: in the running robot the state changes only through the transition
\* table: every step that changes the state from s to s' processes a dequeued
\* event e with TRANSITIONS[s][e] = s'.
C29_StateChangesOnlyThroughTable ==
    [][rb_state' # rb_state
        => /\ rb_event_queue # <<>>
           /\ rb_event_queue' = Tail(rb_event_queue)
           /\ Head(rb_event_queue) \in DOMAIN TransitionsOf(rb_state)
           /\ TransitionsOf(rb_state)[Head(rb_event_queue)] = rb_state']_vars

\* C30: an INTERRUPT_REQUESTED emitted while the component of the current
\* active state runs cancels it: the component does not deliver its
\* completion event after such an interrupt.
C30_InterruptCancelsComponent == ~rbFinishedAfterInterrupt

\* ------------------------------------------------------------------------
\* Recorder of the headless robot (AudioRecorder)
\* ------------------------------------------------------------------------
\* bound: the clock of the model stops here
RecMaxTime == 8

\* _silence_duration = 1.5 s, in ticks
rec_silence_duration == 3

\* max_duration of stream_audio: 30 s in the source, scaled here to 3 s
\* (6 ticks); the guard that uses it is unchanged
rec_max_duration == 6

otherThanRec ==
    << schedVars, ttsVars, asrVars, codecVars, smVars, textVars, chatVars, acVars,
       robotVars, upVars >>

RecInit ==
    /\ rec_recording = FALSE
    /\ rec_last_sound_time = 0
    /\ rec_start_time = 0
    /\ rec_clock = 0
    /\ recPc = "idle"
    /\ recHeard = FALSE
    /\ recEnd = "none"

\* start(): the buffer is cleared, _last_sound_time = time.time(), arecord is
\* started; the caller then enters stream_audio (start_time = time.time())
\* or gives up when start() returned False
RecStart(ok) ==
    /\ recPc = "idle"
    /\ ~rec_recording
    /\ rec_last_sound_time' = rec_clock
    /\ rec_recording' = ok
    /\ rec_start_time' = rec_clock
    /\ recPc' = IF ok THEN "loop" ELSE "ended"
    /\ recEnd' = IF ok THEN recEnd ELSE "start_failed"
    /\ UNCHANGED << rec_clock, recHeard >>
    /\ UNCHANGED otherThanRec

\* while self._recording
RecLoopTest ==
    /\ recPc = "loop"
    /\ IF rec_recording
       THEN recPc' = "read" /\ UNCHANGED recEnd
       ELSE recPc' = "ended" /\ recEnd' = "stopped"
    /\ UNCHANGED << rec_recording, rec_last_sound_time, rec_start_time, rec_clock,
                    recHeard >>
    /\ UNCHANGED otherThanRec

\* chunk = await self.read_chunk(), and the yield of a non-empty chunk:
\* a chunk that is not silence, a silent chunk, b"" after the 1 s timeout,
\* or None (recording stopped, end of input, read error)
RecReadChunk(kind) ==
    /\ recPc = "read"
    /\ IF ~rec_recording \/ kind = "none"
       THEN /\ recPc' = "ended"
            /\ recEnd' = IF rec_recording THEN "end_of_input" ELSE "stopped"
            /\ UNCHANGED << rec_last_sound_time, recHeard >>
       ELSE /\ recPc' = "check"
            /\ rec_last_sound_time' = IF kind = "sound" THEN rec_clock
                                      ELSE rec_last_sound_time
            /\ recHeard' = (recHeard \/ kind = "sound")
            /\ UNCHANGED recEnd
    /\ UNCHANGED << rec_recording, rec_start_time, rec_clock >>
    /\ UNCHANGED otherThanRec

\* the two tests at the end of the loop body: silence, then max_duration
RecCheck ==
    /\ recPc = "check"
    /\ IF rec_clock - rec_last_sound_time > rec_silence_duration
       THEN recPc' = "ended" /\ recEnd' = "silence"
       ELSE IF rec_clock - rec_start_time > rec_max_duration
            THEN recPc' = "ended" /\ recEnd' = "max_duration"
            ELSE recPc' = "loop" /\ UNCHANGED recEnd
    /\ UNCHANGED << rec_recording, rec_last_sound_time, rec_start_time, rec_clock,
                    recHeard >>
    /\ UNCHANGED otherThanRec

\* stop(): _recording = False, arecord is terminated
RecStop ==
    /\ rec_recording
    /\ rec_recording' = FALSE
    /\ UNCHANGED << rec_last_sound_time, rec_start_time, rec_clock, recPc, recHeard,
                    recEnd >>
    /\ UNCHANGED otherThanRec

\* half a second passes
RecTick ==
    /\ recPc \notin {"idle", "ended"}
    /\ rec_clock < RecMaxTime
    /\ rec_clock' = rec_clock + 1
    /\ UNCHANGED << rec_recording, rec_last_sound_time, rec_start_time, recPc, recHeard,
                    recEnd >>
    /\ UNCHANGED otherThanRec

RecNext ==
    \/ \E ok \in BOOLEAN : RecStart(ok)
    \/ RecLoopTest
    \/ \E kind \in {"sound", "silent", "empty", "none"} : RecReadChunk(kind)
    \/ RecCheck
    \/ RecStop
    \/ RecTick

\* C34: stream_audio does not end because of silence before a chunk that is
\* not silence has been read.
C34_InitialSilenceNeverEndsStream == recEnd = "silence" => recHeard

\* ------------------------------------------------------------------------
\* Upload of a recognition session (ASRWorker, ASRClient)
\* ------------------------------------------------------------------------
\* bound: frames the microphone delivers in one session
MaxMicFrames == 3

otherThanUp ==
    << schedVars, ttsVars, asrVars, codecVars, smVars, textVars, chatVars, acVars,
       robotVars, recVars >>

UpInit ==
    /\ upVariant = "none"
    /\ up_is_running = FALSE
    /\ up_ws_ready = FALSE
    /\ up_audio_buffer = <<>>
    /\ up_buffered_frames = <<>>
    /\ upMic = 1
    /\ upBufPc = "off"
    /\ upBufFrame = 0
    /\ upPc = "idle"
    /\ upSent = <<>>
    /\ upSilenceFrame = 0

\* websocket.send(packet): the frame is sent, or the send raises
UpSend(frame, ok, then) ==
    /\ upSent' = IF ok THEN Append(upSent, frame) ELSE upSent
    /\ upPc' = IF ok THEN then ELSE "failed"

\* ASRWorker.run: is_running = True, ws_ready = False, recorder.start(), the
\* buffer_audio thread is started, _stream_asr connects;
\* ASRClient.recognize_stream: connects
UpRun(variant) ==
    /\ upPc = "idle"
    /\ upVariant' = variant
    /\ up_is_running' = (variant = "worker")
    /\ upBufPc' = IF variant = "worker" THEN "loop" ELSE "off"
    /\ upPc' = "request"
    /\ UNCHANGED << up_ws_ready, up_audio_buffer, up_buffered_frames, upMic, upBufFrame,
                    upSent, upSilenceFrame >>
    /\ UNCHANGED otherThanUp

\* buffer_audio: while self.is_running and not self.ws_ready, and the
\* read_chunk() of read_chunk_to_buffer
UpBufRead ==
    /\ upBufPc = "loop"
    /\ up_is_running /\ ~up_ws_ready
    /\ upMic <= MaxMicFrames
    /\ upBufFrame' = upMic
    /\ upMic' = upMic + 1
    /\ upBufPc' = "append"
    /\ UNCHANGED << upVariant, up_is_running, up_ws_ready, up_audio_buffer,
                    up_buffered_frames, upPc, upSent, upSilenceFrame >>
    /\ UNCHANGED otherThanUp

\* read_chunk_to_buffer: self.audio_buffer.append(data)
UpBufAppend ==
    /\ upBufPc = "append"
    /\ up_audio_buffer' = Append(up_audio_buffer, upBufFrame)
    /\ upBufFrame' = 0
    /\ upBufPc' = "loop"
    /\ UNCHANGED << upVariant, up_is_running, up_ws_ready, up_buffered_frames, upMic,
                    upPc, upSent, upSilenceFrame >>
    /\ UNCHANGED otherThanUp

\* the full client request is sent; ASRWorker then sets ws_ready = True
UpSendRequest(ok) ==
    /\ upPc = "request"
    /\ UpSend(<<"full", FALSE, 0>>, ok, IF upVariant = "worker" THEN "get" ELSE "loop")
    /\ up_ws_ready' = (ok /\ upVariant = "worker")
    /\ UNCHANGED << upVariant, up_is_running, up_audio_buffer, up_buffered_frames, upMic,
                    upBufPc, upBufFrame, upSilenceFrame >>
    /\ UNCHANGED otherThanUp

\* _send_audio: buffered_frames = self.recorder.get_buffered_audio()
UpGetBuffered ==
    /\ upPc = "get"
    /\ up_buffered_frames' = up_audio_buffer
    /\ up_audio_buffer' = <<>>
    /\ upPc' = "buffered"
    /\ UNCHANGED << upVariant, up_is_running, up_ws_ready, upMic, upBufPc, upBufFrame,
                    upSent, upSilenceFrame >>
    /\ UNCHANGED otherThanUp

\* _send_audio: for audio_data in buffered_frames: one frame is sent
UpSendBuffered(ok) ==
    /\ upPc = "buffered"
    /\ IF up_buffered_frames = <<>>
       THEN /\ upPc' = "loop"
            /\ UNCHANGED << upSent, up_buffered_frames >>
       ELSE /\ UpSend(<<"audio", FALSE, Head(up_buffered_frames)>>, ok, "buffered")
            /\ up_buffered_frames' = Tail(up_buffered_frames)
    /\ UNCHANGED << upVariant, up_is_running, up_ws_ready, up_audio_buffer, upMic,
                    upBufPc, upBufFrame, upSilenceFrame >>
    /\ UNCHANGED otherThanUp

\* one iteration of the live loop: ASRWorker reads a frame (or nothing) from
\* the recorder, ends the loop on it when the silence timeout has expired,
\* and sends it otherwise; ASRClient takes a chunk from the generator and
\* sends it unless it is empty
UpSendLive(kind, ok) ==
    /\ upPc = "loop"
    /\ upVariant = "worker" => up_is_running
    /\ kind = "expired" => upVariant = "worker"
    /\ IF kind = "empty"
       THEN UNCHANGED << upMic, upSent, upPc, up_is_running, upSilenceFrame >>
       ELSE /\ upMic <= MaxMicFrames
            /\ upMic' = upMic + 1
            /\ IF kind = "expired"
               THEN /\ up_is_running' = FALSE
                    /\ upSilenceFrame' = upMic
                    /\ upPc' = "last"
                    /\ UNCHANGED upSent
               ELSE /\ UpSend(<<"audio", FALSE, upMic>>, ok, "loop")
                    /\ UNCHANGED << up_is_running, upSilenceFrame >>
    /\ UNCHANGED << upVariant, up_ws_ready, up_audio_buffer, up_buffered_frames, upBufPc,
                    upBufFrame >>
    /\ UNCHANGED otherThanUp

\* the live loop that goes on to 'done' without the end frame
UpLoopEndNoLast ==
    /\ upPc = "loop"
    /\ upVariant = "worker" => ~up_is_running
    /\ upPc' = "done"
    /\ UNCHANGED << upVariant, up_is_running, up_ws_ready, up_audio_buffer,
                    up_buffered_frames, upMic, upBufPc, upBufFrame, upSent,
                    upSilenceFrame >>
    /\ UNCHANGED otherThanUp

\* the live loop ends: 'while self.is_running' fails (ASRWorker), the
\* generator is exhausted (ASRClient)
UpLoopEnd ==
    /\ upPc = "loop"
    /\ upVariant = "worker" => ~up_is_running
    /\ upPc' = "last"
    /\ UNCHANGED << upVariant, up_is_running, up_ws_ready, up_audio_buffer,
                    up_buffered_frames, upMic, upBufPc, upBufFrame, upSent,
                    upSilenceFrame >>
    /\ UNCHANGED otherThanUp

\* the end frame: _build_audio_request(b"", is_last=True), websocket.send
UpSendLast(ok) ==
    /\ upPc = "last"
    /\ UpSend(<<"audio", TRUE, 0>>, ok, "done")
    /\ UNCHANGED << upVariant, up_is_running, up_ws_ready, up_audio_buffer,
                    up_buffered_frames, upMic, upBufPc, upBufFrame, upSilenceFrame >>
    /\ UNCHANGED otherThanUp

\* ASRWorker.stop(): is_running = False
UpStop ==
    /\ upVariant = "worker"
    /\ up_is_running
    /\ up_is_running' = FALSE
    /\ UNCHANGED << upVariant, up_ws_ready, up_audio_buffer, up_buffered_frames, upMic,
                    upBufPc, upBufFrame, upPc, upSent, upSilenceFrame >>
    /\ UNCHANGED otherThanUp

UpNext ==
    \/ \E variant \in {"worker", "client"} : UpRun(variant)
    \/ UpBufRead
    \/ UpBufAppend
    \/ \E ok \in BOOLEAN : UpSendRequest(ok)
    \/ UpGetBuffered
    \/ \E ok \in BOOLEAN : UpSendBuffered(ok)
    \/ \E kind \in {"frame", "empty", "expired"} : \E ok \in BOOLEAN : UpSendLive(kind, ok)
    \/ UpLoopEnd
    \/ \E ok \in BOOLEAN : UpSendLast(ok)
    \/ UpStop

\* ------------------------------------------------------------------------
\* Upload: properties
\* ------------------------------------------------------------------------
\* C33: the first frame sent is the full request and only audio-only frames
\* follow; a frame with the is-last-packet flag has an empty payload and
\* nothing is sent after it; an upload that ended without a send failure has
\* sent exactly one such frame.
C33_FrameOrder ==
    /\ \A i \in 1..Len(upSent) :
          /\ upSent[i][1] = (IF i = 1 THEN "full" ELSE "audio")
          /\ upSent[i][2] => (i = Len(upSent) /\ upSent[i][3] = 0)
          /\ (upSent[i][1] = "audio" /\ ~upSent[i][2]) => upSent[i][3] # 0
    /\ upPc = "done" => (upSent # <<>> /\ upSent[Len(upSent)][2])

\* an ASRWorker session sent the request, a buffered frame, a live frame and
\* the end frame
C33_Witness ==
    /\ upVariant = "worker"
    /\ upPc = "done"
    /\ upSent = << <<"full", FALSE, 0>>, <<"audio", FALSE, 1>>, <<"audio", FALSE, 2>>,
                   <<"audio", TRUE, 0>> >>
    /\ up_buffered_frames = <<>> /\ up_audio_buffer = <<>>

\* C36: when an ASRWorker session has sent its end frame, the audio frames
\* sent are exactly the frames read from the microphone, each once and in
\* capture order (the frame on which the silence timeout ended the loop
\* aside).
C36_NoFrameLostAtHandOff ==
    (upVariant = "worker" /\ upPc = "done") =>
        LET audio == SelectSeq(upSent, LAMBDA f : f[1] = "audio" /\ ~f[2])
            read  == SelectSeq([i \in 1..(upMic - 1) |-> i],
                               LAMBDA k : k # upSilenceFrame)
        IN [i \in 1..Len(audio) |-> audio[i][3]] = read

\* ------------------------------------------------------------------------
\* Specifications
\* ------------------------------------------------------------------------
Init == SchedInit /\ TtsInit /\ AsrInit /\ CodecInit /\ SmInit /\ TextInit /\ ChatInit /\ AcInit /\ RobotInit
        /\ RecInit /\ UpInit

SpecSched == Init /\ [][SchedNext]_vars

SpecTTS == Init /\ [][TtsNext]_vars

SpecASR == Init /\ [][AsrNext]_vars

SpecASRFair == Init /\ [][AsrNext]_vars /\ AsrFairness

SpecCodec == Init /\ [][CodecNext]_vars

SpecSM == Init /\ [][SmNext]_vars

SpecText == Init /\ [][TextNext]_vars

SpecChat == Init /\ [][ChatNext]_vars

SpecAsrClient == Init /\ [][AcNext]_vars

SpecRobot == Init /\ [][RobotNext]_vars

SpecRecorder == Init /\ [][RecNext]_vars

SpecUpload == Init /\ [][UpNext]_vars

====
